# libshttp in TLA+

libshttp is a small HTTP/1.x server library in C. A program brings a table of
connections and, if it wants keep-alive, an array of timers; it calls
`shttp_init`, then `shttp_next`, `shttp_send` and `shttp_close` in a loop, and
runs a handler of the library on SIGALRM. There is one thread; what makes it
hard is the kernel on the other side (peers that connect, finish and reset,
file numbers that are reused, one POSIX timer), the signal handler that changes
the same arrays as the program, and the arithmetic of the timers and of the
numbers it writes.

This directory holds TLA+ modules for those parts, configurations that check
them with TLC on small instances, and theorems about all of them checked with
TLAPS for every value of the constants: every invariant that a run checks is
proved, too. Paths below are relative to the repository's `src/`.

## 1. The system: parts, state, operations

| part | source | state it keeps | operations | hard behaviour | what makes it correct |
|---|---|---|---|---|---|
| keep-alive timers | `timer/timer.c` | `conn_timers`, an array of (delta in ms, connection), the first -1 ends it; one POSIX timer for its head | init, deinit, start, stop, next (from the handler) | deltas are computed from a running timer that is read in whole ms; 0 handed to `timer_settime` means "off", a negative value is refused; -1 is a delta and the end; SIGALRM in the middle of a call | list and POSIX timer agree on whether there is a head; every entry expires on time; none is forgotten |
| connection table | `sock/sock.c` | `conns` (fd, events) and the listening socket | init, deinit, accept, next (sleep, accept, scan), send, close | a slot number is all that names a connection; hang-ups, failing close, exhausted slots and file numbers | table and kernel agree; a response goes to who asked; no request is passed over |
| keep-alive | `keep_alive.c` | the two above, through `shttp_socket` | the calls again, with a timer stopped for each request and started for each response; the SIGALRM handler | the handler runs between any two steps of a call, so also after `recv` and before `shttp_timer_stop`; a hang-up does not stop the timer; several responses to one request | a timer stands for the connection it was started for; nobody closes a free slot; idle connections are closed |
| program interface | `shttp.c`, `shttp.h` | none of its own | `shttp_next`, `_send`, `_close`, ... and the macros that turn them into the `shttp_keep_alive_` ones | a name the header does not redirect | covered with the parts it calls |
| request parser | `msg/msg.c` | the program's `shttp_request` and buffer | `shttp_msg_request` | the cursor moves on failure; CR and LF in odd places; a structure that is used again | accepts exactly the well-formed requests, with the right slices |
| response writer | `msg/msg.c` | the program's buffer | `shttp_msg_response` | running out of room anywhere; calls on a buffer that is partly used | the whole response or nothing is sent |
| slices: integers | `slice/slice.c` | none | `insert_` and `parse_` for six types | overflow of value and magnitude, end of buffer | decimal text, read back |
| slices: scanning, copying | `slice/slice.c` | none | `skip_`, `parse_newline`, `cpy`, ... | end of slice | inside Request and Response |
| slices: header iteration | `slice/slice.c` | the program's slices | `shttp_header_next`, `_key`, `_value` | separators in a row, stray CRs, the end of a line and of the section; calls in any order | every line once; values are what lies between separators |
| slices: formats | `slice/slice.c` | the program's slices | `insert_format`, `parse_format` and their `_delim` versions | a small language; where a value ends; failure half-way | what is written is the text of the format; it is read back; a text matches exactly if it can be cut up so |
| types, configuration | `types.h`, `conf.h` | | | | constants of the modules |
| examples | `examples/*.c` | `crud.c`, `rest.c` keep a store | programs | | how programs call the library is taken from them |
| tests, build | `*.test.c`, `test.h`, `Makefile` | | | | not modelled |

How they interact: `shttp_next` calls `shttp_sock_next` (which accepts and
scans) and then `shttp_msg_request` on what was received; with keep-alive it
then stops the timer of the slot. `shttp_send` calls `shttp_msg_response` and
`shttp_sock_send`; with keep-alive it then starts a timer for the slot.
SIGALRM runs `shttp_keep_alive_signal_handler`, which removes the head of the
timers, arms the timer for the next one and closes the slot. The three share
`conns` and `conn_timers` without any lock.

The hazards, each at its line and with the properties that cover it, are listed
in `PROJECT.json`.

## 2. The modules

Dependencies (an arrow is EXTENDS; MC modules only add symmetry sets and inputs):

```
TimerSteps -> Timer          TimerSteps --(implements)--> Timer
TimerPacedMC -> TimerPaced -> Timer      TimerPaced --(implements)--> TimerQueue
SockMC -> Sock
KeepAliveMC -> KeepAlive -> Sock
NumbersMC -> Numbers         FormatsMC -> Formats -> Numbers
MessagesMC -> Messages -> Headers -> Request      Messages --(instance)--> Response

TimerProofs -> Timer, Least
TimerStepsProofs -> TimerSteps, TimerProofs       TimerPacedProofs -> TimerPaced, TimerProofs
KeepAliveProofs -> KeepAlive, Least               FormatsProofs -> Formats, Least
RequestProofs -> Messages, Least                  MessagesProofs -> RequestProofs
```

**Timer** (`timer/timer.c`). `conn_timers` is the array, `rem` the granules until
the POSIX timer expires (0: disarmed), `sigalrm` an expiry whose handler has not
run. `TimerInit`, `TimerDeinit`, `TimerStart` (`StartFull`, `StartRoom`),
`TimerStop` (`StopHead`, `StopLater`) and `SignalHandler` are the calls, with
`FindIndex`, `RemoveIndex`, `Added`, `Gettime` and `ArmedFor` for the static
functions. Time runs in granules, `GranulesPerMs` to a millisecond, because the
rounding in `gettime` is the point. A failed assertion is recorded in `failed`
and ends the program. `Tick` is the clock. After an expiry the handler runs
before the program's next call.

**TimerSteps** has the calls of Timer once more, one step for each test or turn of a
loop, assignment or system call; `call` is where the call is and its local variables.
`Find`, `Found`, `GetSettime`, `Look`, `Merge`, `Shift`, `Zero`, `Settime` are the steps of
`shttp_timer_stop`; `StartLook`, `GetTime`, `Add`, `Sum`, `Limit`, `WriteTime`, `WriteConn`,
`SettimeFull` those of `shttp_timer_start`. With `Interrupts` false a call takes no time,
and `CallsAreAtomic` is the refinement of Timer: it ties Timer, whose actions are written
for the properties, to the statements of the code. With `Interrupts` true the clock runs
and the handler may come between any two steps, as nothing blocks SIGALRM. A signal that
is raised on the way into `timer_settime` may survive it or be taken back (`Setting`):
POSIX leaves that open.

**TimerPaced** is Timer under a program that starts timers at least one sleep of
`shttp_sock_next` apart (`SpacedStart`), which the code sees to, and never while the
running timer has less than a millisecond to go (`PacedStart`), which is luck; section 3
says more. It adds the history variable `window`: the span in which each
entry ought to expire, computed from the promises and not from the deltas.
**TimerQueue** is what the timers promise: a queue of independent timers, each
with its span, that fire in order. `QueueSpec` states that TimerPaced implements it.

**TimerProofs**, **TimerStepsProofs** and **TimerPacedProofs** hold the theorems about the
modules they are named for, **KeepAliveProofs** those about Sock and KeepAlive,
**RequestProofs** those about Request, **MessagesProofs** those about Headers and Response,
**FormatsProofs** those about Numbers and Formats (section 5). **Least** is what they share: the least element of a set of naturals,
induction up to n stated for sets, a sequence without one of its entries.

**Sock** (`sock/sock.c`, `shttp.c`). `conns` and `sock` are the code's; `files`,
`backlog`, `link` and `data` are the kernel and the peers, modelled from what the
code uses of them: the lowest free file number is handed out first, `close`
drops the file even when it reports an error. `pc`, `slot` and `round` are where
the server is. `RoundBegin` is the sleep and the accept of a round,
`ScanHangUp`, `ScanRequest` and `ScanNothing` one look at one slot, `RoundEnd` the
end of a round; `SockNextNblk` is the scan alone, as `sock.h` offers it to a program.
What a call does after it has looked is a step of its own: `ScanClose` after the poll that
found a hang-up, `MsgRequest` (the parse) after the `recv`, `Send` (the accept) after the
`send` of `Sent`. `SendRefused` and `Close` are the program's other calls, `SockInit` and
`SockDeinit` the rest. Peers act between any two steps. A close of a slot that is free, or
of a number that is not open, runs into the assertions `sock.c:134` and `:135`: `Aborts`
records in `failed` whose call it was, and that ends the program. (A build with NDEBUG goes
on.)

**KeepAlive** (`keep_alive.c`) extends Sock. Its calls are Sock's actions conjoined
with what happens to the timers, which are a queue of (slot, and as history the
peer it was started for). This is TimerQueue without the spans, which TimerPaced
is checked to implement. An armed timer may go off between any two steps, whatever slot
its entry is for: between `recv` and `shttp_timer_stop` (`KeepAliveRequest` is the parse
and the stop), between `send`, accept and `shttp_timer_start` (`KeepAliveSend`,
`KeepAliveAccept`, `KeepAliveStart`) and between two responses. `late` notes that it was
the timer of the slot the program is busy with. `KeepAliveClose` stops the timer and closes in
one step: with the timer gone, nothing that comes between the two is about that slot, unless
several responses gave it several timers. `SignalHandler` is the library's handler,
`NoopHandler` the empty `shttp_signal_handler`; a program has one of them for good (`handler`).

**Numbers** (`slice/slice.c`). How many values the value and `mag` have (`Modulus`,
`MagModulus`) are constants, so that widths of 8 and 12 bits show what 16 and 32 do. An insert is stepped through
(`Scale` is the loop that may not end), a parse (`ParseNumber`) is one action. Text is a
sequence of distances from '0'.

**Formats** (`slice/slice.c`). A format is a sequence of characters and of one symbol each
for what stands between delimiters: an escape, a number, a slice, a name that is
none, an opening delimiter without a closing one. `InsertFormat` and `ParseFormat` are the
two functions, a recursive function over the format each: `InsertSymbol` is what an
insert does at one symbol, `ParseSymbol` what a parse does where its literal text ends
and `ParseSpecial` what it does with the symbol there; numbers are read by `ParseNumber`, and written as the decimal text that
`NumberText` says an insert writes. `FormatInsert`, `FormatReread` and `FormatParse` make a
program that writes with a format, reads what it wrote, or parses any text. The `_delim`
versions repeat the code with two parameters for the braces; `Open` is whichever
delimiter the program has chosen.

**Request** (`msg/msg.c`). A message is a sequence of symbols; each function of the
parser is an operator from a cursor, the request structure and a status to the
same, and `Then` is `SHTTP_PROP`. `Receive`, `MsgRequest` and `Reuse` make a program that
parses one message after another into one static structure. Pointers left from
an earlier message are the value `Stale`. A symbol counts as many bytes as it has where the
code counts bytes (`Width`; those of a method are the constant `MethodLength`).

**Headers** (`slice/slice.c`) extends Request with the program that reads `req.headers` of
a request that was accepted: `NextLine` is a call of `shttp_header_next`, `LookInside` turns
to that line or to all that is left of the headers, `ReadKey` and `ReadValue` are calls of
the other two, in any order. `HeaderNext`, `HeaderKey` and `HeaderValue` go from a slice to
what is left of it, the slice found and the status.

**Messages** puts Headers and Response together in one specification, to check both in
one run. Nothing is lost by letting a behaviour either read or write: parser and
writer share no state, and the program resets its slice between them.

**Response** (`msg/msg.c`, `shttp.c`). A buffer is a sequence of cells, and one more
cell behind it. `Send` is `shttp_send` and `shttp_send_ignore`, which differ in what
they leave of the slice.

## 3. The runs

| run | about |
|---|---|
| `timer_steps` | the refinement `CallsAreAtomic` of Timer by the statements of the code, `TypeOK`, for every order and timing of calls and expiries |
| `timer_paced` | `TimerHasHead`, `NoLostTimer`, `OnTime`, `SettimeSucceeds`, the refinement `QueueSpec`, and `TimersServed`, for spaced starts of which none is late |
| `sock_table` | `TableMatchesKernel`, `ReplyToAsker`, `RequestsRead` with three peers and two slots |
| `keep_alive` | `TimersOwnTheirSlots`, `CloseFindsConnection`, `IdleClosed` without resets, through a restart |
| `keep_alive_faults` | `KeptHaveTimers`, `NoTimerLimit`, `FirstReplyToAsker` with resets, failing close, two responses to a request and either handler |
| `numbers` | `NumberText`, `RoundTrip`, `ParsedModulo`, `InsertEnds`, signed and unsigned; `FormatText`, `FormatRoundTrip`, `FormatMatches` for formats |
| `messages` | `HeadersAreLines`, `PathBetweenSpaces`, `AcceptsWellFormed`, `BodyOfThisMessage` of the parser, `HeaderLines`, `HeaderWords` of the header iteration, `WholeOrNothing`, `VersionBeforeEnd` of the writer |
| `alarm_race` | finding: a SIGALRM inside `shttp_timer_start` leaves a timer without a head |
| `timer_settime` | finding: the assertion around `timer_settime` fails, for spaced starts too |
| `keep_alive_stale` | finding: the handler closes a slot that is free |
| `keep_alive_late` | finding: the program is given a request whose slot the handler has closed, and its own close fails |
| `numbers_wide` | finding: `shttp_slice_insert_u32` may not return |

Each property of a passing run has a mutant in its module, a plausible bug of the
code under which TLC finds the property violated.

### Bounds, and why they are enough

- Timers: three entries. Every operation has a case for the head, one for the
  last entry and one for an entry between them; a fourth adds no case. A period
  of a few milliseconds and two or three granules per millisecond let all of the
  roundings add up: each stop of a head loses up to `GranulesPerMs - 1` granules.
  In the code the period is 90 s; the deltas depend on differences only.
- Sock and KeepAlive: two slots (the scan order and the reuse of a slot need
  two), three peers where the table must overflow, file numbers just enough for
  the socket and both slots, so that a leaked number is missed at once, a backlog
  of one. `Rounds` is `timeout * SHTTP_CONN_CHECKS_PER_SECOND`; two rounds have
  everything a longer timeout has. `MaxInits` bounds restarts and `MaxSends`
  responses to one request: two fill a list of two.
- TimerSteps: a step is one statement, and the model keeps the order of the source;
  what a compiler may reorder around a handler is left out. Three entries and two
  connections, so that a connection can be in the list twice and the list can fill;
  two entries are enough for the race.
- Numbers: every value of the width, every room up to the longest text, and all
  texts of up to four characters from a minus, a zero, two digits and a letter.
- Formats: every format of up to three symbols (a directive with something on either
  side), every text of up to three characters, every room up to five, slices with
  room for two; arguments with the format's own characters in them.
- Request and Headers: two methods, of three and four bytes; after a good request line every tail of up to six symbols of
  CR, LF and another byte; cut off and damaged lines before a good tail; header lines
  of up to three symbols of ':', ',', space and another byte, pairs of lines of four,
  and a few longer ones.
- Response: every buffer from empty to longer than the longest response.

Symmetry is used in `timer_settime` and `keep_alive_faults` only, neither of which checks
liveness or an action property. Deadlock checking is off where the system may really
stop, which is when a failed assertion has ended the program: in `timer_steps` (the
assertion around `timer_settime`, which late starts can make fail), in `alarm_race`
and in the runs of KeepAlive (the assertions of `shttp_sock_close`).

### Fairness

- TimerPaced: the clock runs, and a signal that was raised is handled. Nothing
  obliges the program to call the library.
- Sock: the program calls `shttp_next` again and again, as the loop of every
  example does, and the thread runs. The first is strong fairness, as sends may come
  between two such calls and the program is not between calls while one runs: it
  does not answer one request for ever. Nothing is asked of peers, and `RequestsRead`
  has as its alternative that lower slots are served for ever, which is what the
  scan from slot 0 allows.
- KeepAlive: the same, and an armed timer goes off. The bound on responses to a request
  makes weak fairness of the next call enough. A failed assertion ends it all, and
  `IdleClosed` has that as an alternative.
- Numbers: a call that has begun is not stopped for ever. The loop without an end in
  `numbers_wide` is the code's, not the scheduler's.

### The pacing premise

`SettimeSucceeds` fails for Timer: a timer that is read with less than a millisecond to go
reads 0, `shttp_timer_start` takes it for one that is not running and arms it for the
whole period, and the deltas after it come out wrong. Call such a start, with entries in the
list, a late one. There are three specifications:

- `SpacedSpec`: starts are `MinGap` apart. That is what the sleep in each round of
  `shttp_sock_next` gives a program that answers each request once, and all that the code
  ensures. `timer_settime` shows that it does not help.
- `InTimeSpec`: no start is late, however close together starts are. Under it
  `SettimeSucceeds` is proved (`OnlyLateStartsRefused`), so that late starts are the whole
  cause of that failure.
- `PacedSpec`: both; this is what `timer_paced` checks. `OnTime`, `NoLostTimer` and
  `QueueSpec` are about it: they say what the timers do when nobody hits that last
  millisecond, which is likely and not more.

KeepAlive rests on the queue and inherits the premise; all of them run a handler between
calls of the timer code only, see `alarm_race`. A program that sends two responses to one
request does not keep the spacing: the second delta may be 0 and the timer then stays
off. That is why `KeptHaveTimers` and `IdleClosed` are stated for programs that answer once,
while `FirstReplyToAsker` and `NoTimerLimit`, for which it does not matter whether an armed
timer goes off, are checked for both.

## 4. Where code and documents disagree

Shown by runs (see "findings" in `PROJECT.json`): the five findings above.

The trace of `alarm_race`: one connection A in the list, its timer with less than a
millisecond to go. The program starts a timer for B: `gettime` reads 0, `timer_add` sums
one delta and arrives at index 1; now the timer expires and the handler removes A, so
that the list is empty; then entry 1 is written behind its end, and the timer is armed
because the time was 0. When it expires, the handler asserts a head that is not there.
Longer behaviours of the same model do other harm without failing an assertion: a
stop that is interrupted between its search and `timer_settime` removes the entry of
another connection; a start that is interrupted after `gettime` found a running timer
adds an entry and arms nothing; a handler in the middle of a shift duplicates or loses
an entry.

The trace of `keep_alive_late`: a connection was answered and has a timer. Its next request
arrives just before the timer expires; `shttp_sock_next` receives it, and SIGALRM comes before
`shttp_keep_alive_next` gets to line 36. The handler closes the slot; parse and
`shttp_timer_stop` (which finds no timer any more) go on, the request is returned with OK
and with the id of a slot that is free. A send then fails with CONN_SEND, and a close
fails the assertion `sock.c:134`. The run has neither resets nor failing calls. The other
window is behind the `shttp_timer_start` of a response: a program that works on after 90
seconds has lost its connection to the timer it started. `CloseFindsConnection` says that
these two are all, as far as the program's close is concerned. No accept comes between the
read of a request and the first response to it, so that response reaches its asker or
nobody (`FirstReplyToAsker`); the accept at the end of a send may put a stranger into a slot
that was closed, and then a second response goes there.

Met while modelling, part of the models, without a run of their own:

- `shttp_sock_accept` returns UNKNOWN_ERROR when all slots are taken;
  `sock/sock.h:8` and `:12` list TIMEOUT and CONN_ACCEPT.
- `shttp_keep_alive_send` returns TIMER_LIMIT when several responses to one
  request have filled the list; `keep_alive.h:40` does not list it. `NoTimerLimit`
  says that nothing else brings it about.
- `shttp.h` redirects every call but `shttp_signal_handler` to its keep-alive
  version, so the handler of `examples/keep-alive.c` closes nothing.
- The least value of `int8_t` and `int16_t` is written as a minus sign and a
  character that is no digit. `NumberText` holds for all other values.
- `shttp_slice_parse_i*` takes a lone '-' at the end of a slice for 0 when a digit
  happens to follow the slice.
- `shttp_msg_request` does not touch `body` when there is none (`BodyOfThisMessage`),
  takes only the first line of it when there is, and lets it begin with the empty line.
- `shttp_msg_request` leaves the slice at the end of all that was received when there is a
  body (`msg.c:107`, `Body`); `msg/msg.h:7` says that it "makes "s" point to request body".
  `BodyOfThisMessage` is about the pointers of the body only and claims nothing of the slice.
- `shttp_sock_deinit` goes through the slots with `fd < 0` (`sock.c:173`): `close(-1)` fails, so
  the call returns CONN_FD_CLOSE of a table with a free slot and leaves the connections
  that are open, and the listening socket, as they are (`SockDeinit`).
  `examples/error-handling.c:89` reads this status as "Couldn't close connection".
- With fewer than three bytes left for a status code the digits are written one
  byte too far. The call fails and nothing is sent.
- `shttp_header_value` returns SLICE_END for the last value of a line that
  `shttp_header_next` gave out, for it looks for a separator behind a value and the line
  has none; in the headers as a whole a newline is there. `slice.h:111` lists SLICE_END
  without saying so, and `HeaderWords` states it. `shttp_header_key` fills in a key that
  ends the slice and returns SLICE_END too.
- A key or value that is not found leaves `out->begin` moved and `out->end` as it was;
  `out` used again may fail the assertion `slice.c:628` or `:644`. Headers zeroes it.
- What follows the digits in the part of a number is passed over by
  `shttp_slice_parse_format`: "12ab" matches `{u8}`. `FormatMatches` says so.
- An opening delimiter that is not closed is FORMAT_INVALID in a parse and SLICE_END in
  an insert.
- A parse that fails leaves what it has filled in, an insert what did fit.
- An escaped delimiter at the end of the text is compared with the character behind it.
- A slot that was freed by a hang-up keeps `events` = 0, so the next connection in
  it is never read. `RequestsRead` is about slots with POLLIN.

## 5. What is proved

Each theorem holds for every value of the constants under the assumptions the
modules state by name; a premise beyond those is in the theorem, and the text says
what goes wrong without it.

### Timers

`ConnCountAssumption` asks for two entries or more, because the code reads
`conn_timers[1]` unchecked; `TimeAssumption` and `GapAssumption` give
the period, the resolution of the clock and the gap between starts, all positive.

*TimerProofs.* `TypeCorrect` is `Spec => []TypeOK`: a negative time never reaches
the timer and the array keeps its shape. `HandlerFindsHead` is `Spec => []TimerHasHead`:
a timer that runs or has expired belongs to an entry of the list, the head's delta is
0, and the assertions `keep_alive.c:19` and `timer.c:109` never fail. The invariant `Inv`
is both, and two facts neither mentions: before init and after deinit the timer is off,
and no assertion "head" has ever failed. Without the first, an init could find a
running timer in front of an empty list. The arithmetic is in lemmas about the array:
where `Used`, `FindIndex` and `LastFrom` lie, and that `RemoveIndex` and `Added` leave
an array whose head is -1 or 0.

*TimerStepsProofs.* `StatementsImplementTimer` is `StepsSpec => CallsAreAtomic` for a list of
any length: the statements of `shttp_timer_start` and `shttp_timer_stop` do what the
actions of Timer say, so that the theorems about Timer are about the statements too.
`StepsInv` has one conjunct for each group of statements. It says what they find, in
terms of the list when the call began: during the shifting, say, that the list is the
old one with the entries from the removed one up to the index moved down (`Shifting`),
and before the last store that what is missing is the head's delta (`Zeroing`). The
premise is `~Interrupts`; with interrupts `alarm_race` is the counterexample.

*TimerPacedProofs.* `OnlyLateStartsRefused` is `InTimeSpec => []SettimeSucceeds`, for starts as
close together as one likes; its premise is that none is late, and `timer_settime` is the
counterexample without it. The invariant `InTimeInv` adds to the types `InPeriod`: no delta
is negative, and the time left and all the deltas together are at most the period. A start that is not late reads a
running timer or finds the list empty, so what is left of the period, rounded down, is not
negative (`ReadBack`), and the new entry brings the sum up to the period at most.

Under the pacing premise of section 3, which PacedSpec contains in full:
`PacedTypes`, `PacedSettime` (a special case of the above), `PacedHandlerFindsHead`, `TimerNotLost` (`NoLostTimer`),
`ExpiresOnTime` (`OnTime`) and `ImplementsQueue`, which is
`PacedSpec => QueueSpec`: initial states, and every step a step of the queue or a stutter.
None is inductive alone. `PInv` adds `OnChain`: the time left and the sum of the deltas
up to an entry lie in that entry's window, and no window ends later than the period
and the slack from now, less the gap since the last start, so that an entry that is
added comes out behind all others. It adds `Short`, that no delta exceeds the period.
`NoLostTimer` needs `SettimeSucceeds` and it needs the other in turn: a failed `timer_settime` loses the
timer, and a lost timer makes the next start read 0. The lemmas are about sums of deltas
over an array with an entry removed, merged or added.

### Table and keep-alive

*KeepAliveProofs* about Sock, for every number of slots, peers and file numbers (`SockAssumption`):

- `SockTypes`: `Spec => []TypeOK`, from `TypeInv`, which adds that a scan has a round left.
- `ResponseGoesToAsker`: `Spec => []ReplyToAsker`. The invariant is `Bound`, that the slot
  being answered holds an open file whose peer is the one that asked; `Unanswered`,
  that nothing has been answered during a scan; and that -1, the number in a free
  slot, is never that of an open file, without which an accept during the call might
  take the slot. The argument needs nothing of the rest of the table: two
  slots may name one file after a failed `close`, and the response still goes to
  the right peer.
- `TableAgrees`: `Spec => []TableMatchesKernel` if `~CloseFails`. `TableInv` says that the slots
  in use and the socket hold different open files (`SlotsOpen`) and that nothing else
  is open (`NothingLeaks`), until a second init. A `close` that fails drops the file, but
  `sock.c:136` returns before it frees the slot; and an init takes a table over as if it
  were empty.

The same module about KASpec, with the handler between any two steps of a call:

- `KATypes` and `KAResponseGoesToAsker` (`FirstReplyToAsker`) for every program. `KAInv` adds
  `AskerHoldsSlot`: until the first response has left, the slot of the request is its asker's
  if it is open at all.
- `ListNeverFull`: `NoTimerLimit`. The invariant `Roomy` says that as long as no request
  was answered twice no slot has two timers, and the slot that waits for its answer
  has none from `shttp_timer_stop` to `shttp_timer_start`; then the list, which is as long as
  the table, has room.
- `AnsweredHaveTimers`: `KeptHaveTimers`, through resets, failing close and every order
  of expiries (`KeptInv`).
- `TimersOwn`: `TimersOwnTheirSlots` if `~PeersReset`, `~CloseFails` and `MaxSends <= 1`.
- `ClosesFindConnections`: `CloseFindsConnection` under the same premises. It is not that no
  assertion fails, which `keep_alive_late` refutes; it is that none fails in the handler's
  or the scan's call, and none in the program's but by the connection's own timer in one
  of the windows of section 4.

Both follow from `OwnInv`: the table agrees with the kernel (`SlotsOpen`), timers own their
slots, the slot the program works on is open unless its own timer closed it (`BusySlot`), and
from send to `shttp_timer_start` it is the asker's (`ReplyUnderWay`). The last holds because no
timer stands for that slot then. TLC refutes either property when any one premise is
dropped: a reset frees a slot and leaves its timer, a failed close leaves two slots with one
file number, and two responses leave two timers.

The sequence facts come from the removal of an entry of the list of timers
(`RemovedEntry` in Least) and from counting: distinct slots are not more than slots.

### Parser and writer

*RequestProofs*, for every set of methods, versions and messages of any length, under
`RequestAssumption`: no method or version is one of the marks (space, CR, LF, ...), and
a message is a sequence of symbols and not empty.

- `RequestTypes`: `Spec => []TypeOK`; each pointer is in the buffer, NULL or from before.
- `HeadersFound`, `PathFound`, `BodyFound`: `HeadersAreLines`, `PathBetweenSpaces`,
  `BodyOfThisMessage`.
- `WellFormedAccepted`: `AcceptsWellFormed`, in both directions: a message is accepted
  if and only if it has the form the server answers.

There is one lemma for each function of the parser: from a parse in progress that is fine,
what it returns, when it succeeds, and where the cursor is then. They are put together
by `LineRead` (behind the request line), `Skipped` (behind the headers) and `Accepted`.
Three facts carry the argument. `shttp_slice_skip_headers` is a loop over the rest of
the message, in the model a recursive function; that there is such a function is
`LoopExists`, and `SkipHeadersIs` is what it comes to from every place, both by going back
from the end of the message (`UpTo`): a turn only goes forward (`TurnGoesForward`).
A turn that takes a line for not empty after a CR goes on behind that CR, and
`TurnIs` shows that no empty line begins there. And the test for eight bytes, a sum over
a set in the model, leaves at least two symbols behind `HTTP/` (`EightTakesTwo`) and is
passed by `HTTP/` and a version whatever follows (`TwoAreEight`). `RqInv` adds to
the properties that a structure nothing was parsed into holds nothing but NULL or pointers
from before (`NothingRead`), which is what `BodyOfThisMessage` rests on when there is no body.

`ReadingIsParsing` shows that MessagesSpec, which the run `messages` checks, implements
`Spec` of Request, header iteration and the writing half included; so the theorems hold
of it too.

*MessagesProofs*, about MessagesSpec, whose writing half is Response, for texts and
buffers of every length (`ResponseAssumption`):

- `SentWholeOrNothing`: `WholeOrNothing`, and `FirstFailureReported`: `VersionBeforeEnd`.
- `ResponseTypes`: `TypeOK` of Response.

`shttp_msg_response` is a chain of copies. `Reached` is what is true after each of them:
the text so far is in the buffer, from where the slice began, if it fits and the version is known;
otherwise the first failure is the status. `CopyReaches` is one link of the chain and
`ResponseReaches` its end. `RInv` adds to the two properties that the slice lies in the
buffer between calls, whatever the calls before left of it.

### Header iteration

*MessagesProofs*, about the reading half of MessagesSpec, for messages of any length and a
program that makes its calls in any order:

- `LinesReturned`: `HeaderLines`. `shttp_header_next` returns each line once, then SLICE_END,
  and never NEWLINE_EXPECTED.
- `WordsReturned`: `HeaderWords`, the key and the values of a line or of what is left.
- `MessagesTypes`: `MessagesTypeOK`, from `RequestTypes` and `ResponseTypes` and the types of
  the iteration.

The properties list newlines and separators in order (`InOrder`); what that list is, for
every set of positions, is in `InOrderIs`, and `NextInOrder` and `LastInOrder` say which
member comes next behind the first n of them. The invariant is `IterInv`: what is left of
the headers begins behind the lines that were returned and ends with a newline
(`LinesInv`), what is left inside begins behind the values that were returned
(`WordsInv`), and the key ends at the first colon (`KeyInv`). `LineAdvances` and
`WordAdvances` take it one call further. That a line is never without its newline rests
on `HeadersFound`: the section msg_request gives out ends with one.

### Numbers and formats

*FormatsProofs*, about FormatsSpec, for every width, text, format, argument and buffer,
under `NumbersAssumption` (`mag` is at least as wide as the value, and for signed values ten
times the number of values fits) and `FormatsAssumption` (formats are sequences of
characters and symbols, in which nothing follows a delimiter that is not closed); the
program gives an insert of a format numbers in `Printable` only:

- `NumbersWritten`: `NumberText`, for every value in `Printable`. These are the values for
  which `mag` does not wrap around, without the least one of a signed type; for the
  others `numbers_wide` and section 4 say what happens.
- `NumbersReadBack`: `RoundTrip`; `NumbersParsed`: `ParsedModulo`, whatever the text is.
- `FormatsWritten`: `FormatText`; `FormatsMatched`: `FormatMatches`; `FormatsReadBack`:
  `FormatRoundTrip`; `FormatsTypes`: `FormatsTypeOK`.

Decimal text is a recursive function of the value. That there is such a function
(`DecimalExists`), that its digits are digits (`DecDigits`), that the text of n begins with
the text of n divided by any power of ten (`DecBegins`) and that reading it gives n
(`ValueOfDec`) are shown by induction up to n, stated for sets (`UpTo` in Least). `TextInv` is
then the invariant of an insert: while it looks for the first digit `mag` is a power of ten
whose tenth is not beyond the value (`Scaling`); while it writes, text is the decimal text
of the value divided by such a power, and `val` is the remainder (`Writing`). `NumInv` adds the
types, and that `mag` has grown only for a value of two digits or more. A parse is compared with its value
modulo the width from digit to digit (`SameStep`), so that overflow in the middle does
not matter; two values of the type that are the same modulo the width are equal
(`SameValue`), which is why what was written is read back.

An insert of a format and a parse are recursive functions over the format. `Run` is what
they have in common, a start and a step for each symbol; there is one such function
(`RunExists`, `RunUnique`). `W(i)` is the text of the first i symbols. `InsertsAre` says, by
induction over the format, that an insert has written `W(i)`, or has stopped at the first
symbol that did not fit or is not valid. For a parse `Going` says where it is: behind a cut
of the text along the symbols so far (`CutTo`) whose parts it has given out, at most one
value for each symbol, with a run of literals still to be compared. `ParsesGo` keeps this through
every symbol and `ParsedIs` is its end: a parse that succeeds has found a cut. For the other
direction `Following` says that along a given cut nothing stops it (`FollowAll`,
`CutParsed`). `FormatsReadBack` then only needs that the texts of the symbols are themselves
such a cut of what they make together (`BegunCuts`), and that a number is read from
its own text. `FmtInv` ties the variables to the two functions in every state.

### Only model-checked

- Liveness, which is out of the prover's reach: `TimersServed`, `IdleClosed`,
  `RequestsRead`, `InsertEnds`.
- The five findings, which are counterexamples.

## 6. Not modelled, and why

- A SIGALRM inside `shttp_sock_close` (between the `close` and the -1 in the slot, where the
  number may be somebody else's by then) or inside `shttp_sock_accept` (between the test of a
  slot and the number in it): the models have it before and after these, between poll, recv,
  parse, send, accept and the timer calls. Inside the timer code it is in TimerSteps. What a
  compiler may reorder. What a build with NDEBUG does behind a failed assertion.
- `shttp_slice_insert_i32`, and `parse_i32` beyond the range of the type: signed
  overflow, undefined in C.
- Requests that arrive in several pieces, partial sends, SIGPIPE: the library takes
  what one `recv` gives and does not look at how much `send` took.
- `shttp_slice_eq_until`, `shttp_slice_skip_past_or`, `shttp_slice_skip_past_space`: nothing in
  the library or the examples calls them. (`shttp_slice_eq_until` has no result for
  texts of different length but that of their common part; its tests do not say what
  it should be.)
- The six integer types within one format: Formats has one, with the width and sign
  of Numbers.
- The data that `crud.c` and `rest.c` store; tests and build files.

## 7. Plan

Order: timers, table, keep-alive over both, then parser, writer and numbers, then
the timer code statement by statement, header iteration and formats; then the
proofs of section 5: done. What could come next:

1. Formats: which slices a failed parse has filled in, as a property and a theorem.
2. `InsertEnds` as a bound that decreases with every step of an insert, which is a
   safety property and could be proved.
3. The handler inside `shttp_sock_close` and `shttp_sock_accept`, statement by statement, as
   TimerSteps does it for the timer code.
