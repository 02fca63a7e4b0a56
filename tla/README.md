# Verification of tinjac

tinjac ("this is not just another cron") is a crond replacement in an early state. What the program does
today: `main` builds one `crontabs` object for `/etc/cron.d`; its constructor visits every file of
that directory, reads the first entry of the file (`load_entry`), computes the next time at which
that entry runs and prints it (`printTime`). There is no daemon, no thread and no message: the hard
parts are a hand-written parser that works on memory next to its arrays, a search written with
`goto`, C memory handling, and a directory that other processes change while it is walked through; no
test in the repository covers any of them.

The specifications below model all of the code that is compiled into the program, apart from its log.

## Inventory

| component | source | state | operations | interacts with |
|---|---|---|---|---|
| bit strings | `include/bitstring.h` | bits in the arrays of an entry | `bit_test`, `bit_set`, `bit_nset`, `bit_nclear` | written by the parser, read by the parser and `printTime` |
| entry | `include/crontabs.hpp`, `include/macros.h` | five bit strings, flags, command, passwd copy, environment | field bounds and layout | made by `load_entry`, read by `printTime` |
| parser | `crontabs.cpp` 276-860 | the stream, the entry under construction, the error code | `load_entry`, `get_list`, `get_range`, `get_number`, `set_element`, `get_string`, `skip_comments` | called once per file by `parseCrontab` |
| environment | `crontabs.cpp` 944-1082 | NULL-terminated array of strings | `env_init`, `env_copy`, `env_set`, `env_get`, `env_free`, `glue_strings`, `strcmp_until` | called by `load_entry` and `parseCrontab` |
| passwd copy | `crontabs.cpp` 865-942 | one block | `pw_dup` | called by `load_entry` |
| next run | `crontabs.cpp` 144-274 | three broken-down times, the label reached | `printTime` | called by `parseCrontab` with the entry |
| directory scan | `crontabs.cpp` 88-142 | directory iterator, open descriptors | `setPath`, `parseCrontab` | runs everything above |
| main | `main.cpp` | the log and the `crontabs` object | `main` | catches what the scan throws |
| log | `log.cpp`, `log.hpp` | none that is read back | `logmsg` | called from everywhere |
| cronie 1.4.6, Wt 3.1.7a | vendored | | | not compiled into the program; cronie's `man/crontab.5` documents the file format |

`src/TODO` also plans databases, a web interface, inotify and load control;
there is no code for them.

What is hard in this code, and what makes each part correct:

* **Search by restart.** `printTime` settles month, day, hour and minute in turn; a field that has no
  further value moves the place of the search on and jumps back to `restartm`, leaving earlier
  results half assigned. Correct means: what is printed is selected by the entry and does not lie
  before the clock; it is the earliest such time; the search ends.
* **Off-by-one between bits and values.** Days are bits from 0 and values from 1, months are bits
  from 0 and `tm_mon` counts from 0, but `FIRST_MONTH` is 1. `bit_nset` and `bit_nclear` take a last
  bit and are given a number of bits, so each call reaches one bit further than its array. Correct
  means: this never changes what another field selects, and never reaches the flags.
* **Line discipline.** After an error the parser skips the rest of the line; whether the newline has
  been read, pushed back or neither depends on where the error was found. Correct means: the next
  call starts at the next line.
* **Failing allocations.** Any of nine allocations can fail. Correct means: what was allocated is
  freed or belongs to the returned entry.
* **Arithmetic.** `atoi` of a long number, and `i += num3` in the step loop, leave the range of `int`.
* **A shared directory.** Between `exists` and the iterator, and between `status` and `open`, a name can be
  removed or replaced. Correct means: a walk that ends has looked at every file that stayed there.
* **Descriptors.** `parseCrontab` closes nothing, and `getpwnam` needs a descriptor besides that of the crontab. Correct means, at least:
  nothing else than this leak uses them up, and a file that is denied one does not keep the others from being read.
* **One file against all others.** An exception or a search that does not end hides the files behind it.
* **Memory of the environment.** Arrays and strings are allocated one by one, copied, replaced and freed in several
  routines. Correct means: every block has one owner at every moment, also after half a copy has failed, and the
  array means what its calls said.
* **One block for five strings.** `pw_dup` measures in one pass and copies in another. Correct means: both count the same bytes.
* **Ends of files.** A file can end anywhere, inside any of the nested reading loops.

`PROJECT.json` lists these as hazards, each with its line and the properties that cover it.

## Modules

| module | models | about |
|---|---|---|
| `Bitstring` | `bitstring.h` | the macros, byte by byte, on memory as a set of bits |
| `CronEntry` | `crontabs.hpp`, `macros.h` | field bounds as constants, layout of the entry |
| `Nicknames` | `load_entry` 348-393 | the bits and flags of `@yearly` ... `@hourly`, `@reboot` |
| `CrontabText` | `get_char`, `unget_char`, `get_string`, `Skip_Blanks`, `Skip_Nonblanks` | a file as symbols, a stream as a position |
| `LoadEntry` | `load_entry` and everything it calls | the parser as a state machine |
| `Crontab5` | `crontab(5)` | how a line is written, as a description of the places in the text, and what it means, independently of the parser |
| `PrintTime` | `printTime` | the search as a state machine |
| `NextRun` | `crontab(5)` | abstract specification: ask for a next run, get the earliest one |
| `PrintTimeNextRun` | | `PrintTime` implements `NextRun` for simple entries |
| `PwDup` | `pw_dup`, `load_entry` 497 | the copy of a passwd entry, byte by byte, and the wipe of its password |
| `Env` | `env_init`, `env_copy`, `env_set`, `env_get`, `env_free`, `glue_strings`, `strcmp_until` | the routines step by step on a heap of blocks |
| `Environment` | | abstract specification: a function from names to values per holder; `Env` implements it |
| `Scan` | `main`, `setPath`, `parseCrontab` | the whole program: extends `Crontab5` (and with it `LoadEntry`), instantiates `PrintTime` |
| `LoadEntryProofs`, `Crontab5Proofs`, `PrintTimeProofs`, `PwDupProofs`, `EnvProofs`, `ScanProofs` | | theorems about the module of that name (`LoadEntryProofs`: about `Bitstring` too) |
| `EnvironmentProofs`, `NextRunProofs` | | that `Env` implements `Environment`, that `PrintTime` implements `NextRun` |
| `MCLoadEntry`, `MCPrintTime`, `MCNextRun`, `MCRealClock`, `MCPwDup`, `MCEnv`, `MCScan` | | inputs for the model checker |

### State and actions

`PrintTime`: `now`, `then`, `start` are `tm_now`, `tm_then`, `tm_start`; `pc` is the part of the
routine (`month` on the way in, `restartm` at the label, then `dom`, `hour`, `min`, `print`). Each
part has three actions: the star flag is set, the scan finds a bit, the scan finds none. The local
`ok` is not a variable: it is FALSE at the beginning of every scan and says afterwards which of the
three happened. The dump of the bit strings at the top of the routine only prints. `Announce` is
`ptime_from_tm`, an external routine, which throws for a date that is not in the calendar.
The years are counted up to `YEAR_CAP`; further on two years alternate, so a search that never ends
is a cycle and not a deadlock.

`LoadEntry`: `pos` is the position of the `FILE`, `ch` the variable of the same name, `pc` the stage
of `load_entry` or of the routine it is in (`range`, `span`, `step`, `elements` are the parts of
`get_range`, `list` is the loop of `get_list`), `num1`, `num2`, `num3` the locals of `get_range`, `mem`
the bits of the entry, `heap` the blocks that are allocated, `env` the environment of the entry.
Reading loops (`skip_comments` within a line, `Skip_Blanks`, `get_string`) are one step each: nothing
else can run in between. Every allocation has a failing alternative, and so has `getpwnam`: `lookup` says whether it answered; the code takes
either NULL for an unknown user. `calloc` of the entry and
`env_init` are not tested by the code: their failure is the outcome `crash`.
`parseCrontab` passes no error function and no passwd entry, so the branch for user crontabs and the
error report are not reached and not modelled; nor is `LineNumber`, which is written (its value before
the first call is indeterminate) and read nowhere.

A file is a sequence of symbols: a run of digits is one symbol with a value, a run of letters one
symbol with a word. The code treats both as units (`get_number` collects them before it looks at
them). Left out by this: runs longer than `MAX_TEMPSTR`, the
difference between space and tab, NUL bytes, and letter case (names are compared without it).

`Crontab5` describes a written line by the places of its symbols: where the first active line begins (`FirstField`), which words between blanks are the lists of the
time, where in its word each range of a list stands (`Places`, `Spells`), and where user and command stand (`IsLine`). Of the parser it uses what a blank, a word and
the end of a line are, and nothing of what reads numbers, ranges and lists. A list is what the manual allows (`IsList`): a name stands alone, and
ranges are of numbers. A file of the
model comes with the lists, the user and the command that were written in it, and `FilesAreWritten` says that its text is that line; a nickname comes
with the lists it stands for (`StandsFor`).

`PwDup`: `i` goes twice through the five strings, once in `Measure` (the `strlen` part, `size` holds `nsize` to `ssize`), once
in `Copy`. `block` is the allocated block as a function from offsets to bytes, `cp` the offset of the pointer of that name,
`newpw` the five pointers of the copy as offsets. The struct itself takes the first `STRUCT` bytes; its other members
are copied with it and are not told apart. `pw_class` is compiled out. `getpwnam` always gives a password
field (assumption `PwDupInputs`): line 497 takes its length without a test.

`Env`: `heap` maps an address to a free block, an array of pointers or a string; `envp` is the array of each holder (`parseCrontab`
holds one for the file, the entry another). A call of a routine is an action (`env_init`, `env_copy`, `env_set`, `env_free`),
and each turn of its loops another, so that every half-done state is a state of the model. `env_set` is modelled
with the string that `load_entry` glues for it; the search for the old setting reads only and is part of the step that
uses its result. `env_get` is an operator: it changes nothing. `malloc` is a parameter that says which free block is
handed out; it may also fail although there is one. A cell that nobody has written holds `Junk`. `load_entry` today uses less of this: it
copies an empty environment and sets five different names, and `LoadEntry` keeps that short form.

`Scan`: `dir` is the directory on the disk, `todo` what the iterator will still return, `at` the place in `setPath` or `parseCrontab`, `fds` the
descriptors in use, `report` what became of each name, `end` how `main` was left. `Parse` is a step of `LoadEntry`, `SearchStep` a step of `PrintTime` (its
`pc` is `spc`). `Install`, `Remove` and `RemoveDir` are what other processes do; they happen where the program next looks
at the directory, since the steps in between do not. Whether the iterator returns a name that came or went after it was
opened is unspecified, and open in the model. `Arrivals` are the files that others install. `open` fails for a name that has gone, when there is no descriptor left, or for a
reason of the system's own (`unreadable`: permissions, a full table of files, the disk); `fdopen` fails without
memory and keeps the descriptor. `Parse` lets `getpwnam` answer only if there is a descriptor left besides the crontab's; the file that took the last one is
refused. `SystemDenied` is the set of these fates. `steady` is a history variable: the names nobody touched since the directory was opened.
The blocks that earlier files leave allocated are not carried along: an allocation may fail in any case.

## Runs

| run | checks | shows |
|---|---|---|
| `printtime_small` | `TypeOK`, `SearchInv`, `PrintedSelected`, `NotInPast`, `WithinAYear`, `YearInv`, `GivesUpBehindYear`, `EndsWhenSchedulable` | for every entry and every clock of a small calendar: a printed time is selected in day, hour and minute and not in the past; an entry that leaves every restarted scan something to find ends within a year; the search is given up only if it began in the first month and the entry has the bit behind the last |
| `printtime_refines_nextrun` | `KeepsPromise`, `AlwaysAnswers` | for `M * * * *` and `m H * * *`, `printTime` implements `NextRun`: the earliest matching time, or a failure when that lies in another month (`KeepsPromise`, the safety part of `NextRun`), and always one of the two (`AlwaysAnswers`, its liveness) |
| `load_entry` | `TypeOK`, `StaysInStep`, `NoGarbage`, `Conforms`, `SelectsSomething`, `Ends` | 3294 files: a line of crontab(5) is accepted and stored as it is meant; nothing that is accepted selects nothing or sets a stray bit; a call takes exactly its line, or the next one too after a backwards range or a step of zero that ends its line; nothing is leaked, unless a `-` ends the file; the call ends |
| `scan` | `ScanTypeOK`, `NothingMissed`, `JobsAnnounced`, `AnnouncesLine`, `AnnouncesEntry`, `ProgramEnds` | the program from `main` to its end, real bounds and calendar: whatever others do to the directory, a walk that ends normally has looked at every file that stayed (`NothingMissed`), and announced the job on its first active line unless the system denied it something or `@monthly` was given up (`JobsAnnounced`); the minute, hour and day of month that are printed for a file have their bit or star flag in the entry the parser stored, and the time is not before the clock (`AnnouncesEntry`); those not written with a star are among the values written in the file (`AnnouncesLine`); the program ends unless `printTime` searches for an entry that leaves a restarted scan nothing to find |
| `env` | `TypeOK`, `OwnedOnce`, `LoopsStop`, `SetsEachOnce`, `KeepsEnvironment`, `Returns` | any calls by two holders, every allocation failing: no leak, no dangling pointer, no sharing in any half-done state; no loop runs past the NULL of its array; no variable is set twice; `Env` implements `Environment`; every call returns |
| `pw_dup` | `TypeOK`, `InsideBlock`, `CopyReads` | every combination of missing, empty, short and longer strings: the copy stays in its block, fills it, reads as the original, and holds no byte of the password |

Runs that end in a counterexample, each about a sentence of a document or comment the code does not keep:

| run | property | the code |
|---|---|---|
| `yearly_never_ends` | `Ends` | the give-up test compares a year that nothing changes and January is never scanned again, so an entry of January only, such as `@yearly`, loops for ever |
| `july_at_nine` | `FieldsMatch` | the month stored is the one the scan started from, not the one found, and the star flag of `*/2` is read as "every hour": `0 */2 * 7 *` in January at nine gives January at nine |
| `last_day_throws` | `RunsToday` | the day scan starts on the day after today, and the spare bit behind the days is read as day 32: `@hourly` on the 31st throws |
| `line_lost` | `ReadsOneEntry` | a backwards range (or a step of zero) at the end of a line makes `load_entry` throw away the next line too (lines 687, 707), although its comment says that it reads one entry |
| `accepts_no_line` | `AcceptsLinesOnly` | `jan-mar` is accepted, although crontab(5) does not allow ranges of names; so is a number beyond `int`, which `atoi` takes for another one; and what follows a range inside a field is dropped: `*mon` is read as `*`. The accepted entry of the trace has all three |
| `setting_hides_job` | `EveryJobRead` | a job behind `MAILTO=root` is never looked at: the assignment is read as a time and refused |

### Bounds

* Calendar of `printtime_small`: `LAST_MINUTE` = `LAST_HOUR` = 1, `LAST_DOM` = `LAST_MONTH` = 3. Every set of bits
  with and without its star flag in each of four fields, `@monthly` and `@daily` with their spare bits, and every clock of a year. The routine
  compares fields and adds one; three values are enough for first, middle and last, and the
  constants of the code that are not bounds (`FIRST_DOM` = `FIRST_MONTH` = 1, the spare bits, the month
  index from 0) are kept. `MCNextRun` uses three hours and three minutes.
* `YEAR_CAP`: one more than the years that any search that ends needs.
* `INT_MAX` = 511 instead of 2^31 - 1, larger than every field bound and the steps tried; the files hold
  numbers at both sides of the wrap.
* `MAX_COMMAND` = 4 symbols: a command that fits, one that fills the buffer and one that is cut. User names and
  nicknames are one symbol.
* Files: one field varies over all ranges between boundary values with all steps; all combinations of
  first, last and full in the five fields (the seams between the arrays); every text around a line;
  fields of up to three arbitrary symbols; lines that end in a refused field, with another line behind them; and two lines and all
  nicknames cut off at every symbol. The runs `line_lost` and `accepts_no_line` read one file each.
* `scan`: five directories: none, an empty one, two with three files and one with four, out of a job with steps and lists, a job of the 31st behind a
  comment, `@hourly`, `@daily`, `@monthly`, `@yearly`, a broken line and an entry that is no regular file, walked through in every order. `MAX_FD` = 7: the third file that is
  opened takes the last descriptor, so its user is not looked up, and the fourth finds none. `MAX_CHANGES` = 1; more changes, such as a name that is removed and
  installed again, are left to the theorems. The two clocks are the last day of a January, from where
  `@monthly` is given up, and the first of a December, before and behind which every carry happens.
* `env`: two names of which one begins the other, an empty value and one with a `=` that fits with the shorter name only, six
  blocks: an environment of two variables and its copy fill them. Blocks are interchangeable, so the model hands
  out the first free one.
* `pw_dup`: strings of up to two characters; the theorems cover all others.

Deadlock is not checked: the routines return and the program ends.

### Fairness

One thread executes each routine, and no step of it waits: weak fairness of the next-state relation
says only that the thread goes on. In `Scan` the fairness is that of the program; the other processes need
not do anything. In `Env` it is that of a routine that was called; the caller may stop calling.

## Proofs

Each theorem holds for every value of the constants that satisfies the named assumptions of the module, which the model
checker evaluates on its instances. No assumption bounds the number of files, symbols, blocks or descriptors.

**`PrintTimeProofs`**, for every calendar, all field bounds, all entries and all clocks. Assumptions: `FieldBounds` (the bounds are natural
numbers, the last day and month not below the first), `PrintTimeInputs` (entries are sets of bits, clocks are times of the calendar).

* `TypeCorrect`: `TypeOK`.
* `SearchCorrect`: `SearchInv`. `PrintedSelected` and `NotInPast` are not inductive: they say
  nothing before the end. `SearchInv` says what is true on the way. The place of the search (`Ahead`) is
  not before the start, where the one reset of the month is paid for by the year of the answer;
  and a field of the answer is *settled* from the step that assigns it to the next jump, during which it is
  selected and not below the place. The jumps unsettle everything at once, so no left-over field is printed.
* `PrintsSelected` and `NeverInPast`: the two properties, from `SearchInv`.
* `AtMostOneNewYear`: `WithinAYear`, from `YearInv`: a search that has left its month stands at the beginning of one, where no scan of a smaller
  field comes back empty, so it leaves no second one; and a new year begins at `FIRST_MONTH`, from where the scan of the month does not either.
  `AtBeginOfMonth` is `YearInv` itself.
* `GivesUpOnSpareBitOnly`: `GivesUpBehindYear`. The invariant `GiveUpInv` says that the place never leaves its year (so the test of the year fails), and that
  behind the scan of the month it is in a month of the calendar, or in the one behind the last when the entry has that bit; from there alone
  the test of the day succeeds.

**`NextRunProofs`**, for every calendar with two months or more. Further assumption: `NextRunInputs` (the entries are `M * * * *` and `m H * * *`, every
month has between one and `LAST_DOM` days).

* `ImplementsNextRun`: `KeepsPromise`. The invariant `NextRunInv` says that no matching time has been passed over (`NothingSkipped`): a carry is taken only
  when the rest of the hour, or of the day, holds nothing the entry selects; that the place stays in its month, with `*` in the hours even on its day and within
  the next hour (`InMonth`); and that each settled field is the first selected value from the place on. The last step is then the earliest matching time, in
  the first hour of the day after when the hour was carried beyond the day (`DayAfterIs`: nothing lies between a day and the day after it); when the month does not have
  the day of the place, the earliest time is shown to be on the first of the next one, which `NextRun` may refuse. The give-up exits are not taken, by `GiveUpInv`.

**`LoadEntryProofs`**, for files of any length and content. Assumptions: `FieldBounds`, `LoadEntryInputs` (a file is a sequence of symbols, the
command buffer holds a symbol and its NUL, an `int` holds every minute), `SpareBit` (the byte behind the days of the week is not the flags
word, true of the layout of `struct _entry`).

* `NsetExact`, `NclearExact`: the byte masks of `bit_nset` and `bit_nclear` change exactly the bits `start..stop`, in one byte or across any
  number. The reach of these macros beyond an array is therefore exactly the one bit the callers ask for.
* `KeepsToItsLine`: `StaysInStep`. The invariant `InLine` says for every stage where the stream stands: between lines no useful line has
  been passed; the time is read one symbol ahead inside the line; at the label `eof` the newline has been read exactly when `ch` says so,
  except at the end of the file and after a range that was refused backwards or for a step of zero, which the symbols before the newline then show
  (`DropsNewline`), the one case the property allows.
* `LeavesNoGarbage`: `NoGarbage`, which excepts the entry that leaks when a `-` ends the file. The invariant `Holds` says for every stage which blocks are allocated; from the environment on they are what the
  label `eof` frees.
* `TypeCorrect`: `TypeOK`, with `InLine` for the stream and the layout of the arrays for the bits: nothing the parser or a
  nickname sets reaches the flags.

**`Crontab5Proofs`**. Further assumptions: `TwoSundays` (the days of the week go up to 7, as line 459 takes for granted) and, for the second
theorem, `FilesAreWritten`.

* `NothingEmptyNothingStray`: `SelectsSomething`, whatever the text. The invariant `Selecting` says that the fields read so far have a bit each and
  that there is no other bit. It survives because a field is cleared one bit too far only into the field behind it, which is still to be
  read, and because a range that is not refused visits its lower end.
* `ReadsWhatIsWritten`: `Conforms`, for lines of any length, with any number of items in a list, any blanks and comments around them, any nickname. No
  induction over the text is needed, since the text is described by places and not built: the invariant `Follows` says for every stage at which place of the
  written line the parser stands (`Tells`: which item of which list, whether before its number, its `-`, its `/` or behind it), that the numbers it holds are those written there, that
  the fields behind it hold what they mean, and that the one it is in holds the items passed. Each step of `get_range` and `get_list` goes to the
  next place and leaves no other way: `IsLine` determines the symbol there. `SettingRefused` is the counterpart for files with an assignment in front: it is
  refused before it can be taken for a line.

**`PwDupProofs`**, for passwd entries with strings of any length. Assumption: `PwDupInputs`.

* `TypeCorrect`: `TypeOK`.
* `NeverOutside`: `InsideBlock`. The strengthening `Counted` says that `total` counts the strings measured so far and
  `cp` those copied so far with the same sum `Before`; that sum grows by one string at a time and never falls
  (`OneByOne`), so the next string ends before the total. `PasswordPlaced` is needed for the wipe, which writes at the pointer of the copy.
* `CopyReadsAsEntry`: `CopyReads`. `Placed` gives each copied string its own place in the block, behind those before it; `Filled` says that what was
  copied there is still there, as no later copy and no wipe of another string reaches it.

**`EnvProofs`**, for any holders, names, values, memory and allocator. Assumption: `EnvInputs` (the allocator hands out free blocks, `NULL` is no
address, a name has no `=` in it and no string a NUL).

* `TypeCorrect`, `LoopsStayInside`, `NoLeakNoSharing`: `TypeOK`, `LoopsStop` and `OwnedOnce`. None of them is inductive alone: a loop
  that left its array would read no block, a shared block would let one routine overwrite the array another one walks, and that the claims
  on blocks are kept needs the ends of the arrays. The three together (`EnvInv`) are.

**`EnvironmentProofs`**, under the same assumption.

* `EachVariableOnce`: `SetsEachOnce`, which includes the strings that are on their way into an array.
* `ImplementsEnvironment`: `KeepsEnvironment`. A name holds no `=`, so two strings are found under the same name exactly when they set the same
  variable; a step touches the blocks of one holder only (by `OwnedOnce`); so of all holders at most one sees a change, and that is
  one operation of `Environment`.

**`ScanProofs`**, for any directory, files, clocks, limit of descriptors and changes by others. Assumptions: those of `LoadEntry` and `Crontab5`, `ScanInputs` (the process may
open a file at all, the directory holds files of the model or names that are no regular file), `ScanClocks`.

* `ScanTypeCorrect`: `ScanTypeOK`.
* `MissesNothing`: `NothingMissed`. `Walk` says that a name that stayed is still to come, or is the one the program is at, or was looked
  at; `Counting` that, as long as nobody changes the directory, the descriptors in use are those of the process and one for each file opened.
* `AnnouncesStored`: `AnnouncesEntry`, that is, minute, hour and day of month; the months and the days of the week are not part of it (see `july_at_nine`). `Searching` says that a running search satisfies the invariants of `PrintTimeProofs` for the entry that is in
  memory: the theorems about `printTime` are used through the instance that `Scan` runs, so they hold for what the parser really leaves.

* `AnnouncesWritten`: `AnnouncesLine`, for the minute, the hour and the day of month if not written with a star (see `july_at_nine`). What `printTime` sees in the arrays (`Seen`) is compared with what the line means. `Loading` says that a call of `load_entry` satisfies
  the invariants above on the file that the directory shows under this name, and that the search runs on the entry this call made; the spare bits that `printTime` reads behind a field are empty
  for five time fields (`SeenShown`), and known for each nickname (`SeenOfNickname`); so a value that is selected in memory is written in the line (`SeenWritten`).
* `PassesOverNoJob`: `JobsAnnounced`. `Served` says that a file behind the walk has been
  announced or has one of the excuses; a job is refused by none of the error exits of the parser but those for want of memory or of the lookup (from its invariant `Follows`), and given up only
  if it is `@monthly` (`GaveUpMonthly`, from `GiveUpInv`). Like the property, it is about walks that end normally, not by an exception of `printTime`, and about jobs
  that are the first active line of their file.

Every invariant that a run checks is thereby proved, and so are the steps of both refinements. Only model-checked is what rests on
fairness: `EndsWhenSchedulable`, `AlwaysAnswers`, `Ends`, `ProgramEnds` and `Returns`.

## Other observations

Where a run is about one, it is named.

* `parseCrontab` passes NULL as error function: a line that is refused is refused silently.
* `printTime` and `parseCrontab` return no value on their main path although they are declared `bool`. Their callers
  ignore the result; the models take the return to be an ordinary one.
* The give-up tests for month, hour and minute compare values that were not changed or just reset: they never fire. That of the day fires for `@monthly` asked for
  in January (`GivesUpBehindYear`, `JobsAnnounced`); asked for in another month, `@monthly` does not end, as its one day is never scanned again.
* `printTime` does not look at the day of the week.
* Lists of names are accepted like ranges of them (`accepts_no_line`).
* `Sat-Sun` is refused: the first name that fits is 0.
* A file that is opened with the last descriptor is refused as if its user were unknown (line 485).
* Only the values that the step loop visits are tested: `50-64/15` is accepted. Behind `*` any character ends the range: `*5` is accepted as `*` (`accepts_no_line`).
* A file's second job is never read, and `@reboot` entries keep `printTime` from ending like `@yearly`.
* Nothing tests `calloc` (line 313) or `env_init` (line 134); when they fail the program ends in a crash, which is a way for `Scan` to end.
* When `env_set` fails it returns NULL and leaves the old array valid, which `load_entry` relies on when it frees it.
* A `-` that ends the file leaves the entry allocated (`NoGarbage` states this exception).

## Plan

1. Done: all modules; a theorem for every invariant that a run checks, and for the refinements of `Environment` and `NextRun`.
2. To come, when the code grows: the second and later entries of a file once `parseCrontab` reads them, and the day of the week once `printTime` looks at it.

## Not modelled

* The log: output only, nothing reads it back.
* `bit_alloc`, `bit_clear`, `bit_ffc`, `bit_ffs` of `bitstring.h`: nothing uses them.
* The vendored trees `cronie-1.4.6` and `wt-3.1.7a`, and `tests`: nearly all of the repository's lines, but other projects' code, which
  the build does not compile into the program. The program's own code is `src/crontabs.cpp`, `src/main.cpp`, `src/log.cpp` and four headers.
* The features that are only planned, in `src/TODO`.
* Errors while the directory itself is read (the iterator throws, and `main` catches), and read errors of a crontab (`getc` returns
  `EOF` for them, as at the end of the file).
* The dump of the bit strings in `printTime`, and what is written to the terminal besides the answer.
