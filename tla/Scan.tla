-------------------------------- MODULE Scan --------------------------------
(***************************************************************************)
(* One run of the program: main, crontabs::setPath and parseCrontab, with  *)
(* load_entry (the steps of LoadEntry) and printTime (those of PrintTime)  *)
(* as they call them.                                                      *)
(*                                                                         *)
(* The directory is shared: while the program walks through it, files are  *)
(* installed (by a rename, as package managers and editors do) and         *)
(* removed.  parseCrontab closes neither the stream nor the descriptor.    *)
(***************************************************************************)
EXTENDS Crontab5, FiniteSets

CONSTANTS
  Names,         \* names a file can have
  Directories,   \* what the directory may hold when the program starts
  Special,       \* an entry of the directory that is no regular file
  Arrivals,      \* the files that others install
  MAX_FD,        \* how many descriptors a process may have
  MAX_CHANGES,   \* how many times others change the directory
  Clocks, YEAR_CAP, DaysIn(_, _)   \* as in PrintTime

(* There is no directory: no name has a file, and none can get one. *)
NoDir == [there |-> FALSE, files |-> <<>>]
Dir(files) == [there |-> TRUE, files |-> files]

(* Descriptors the process has besides those of crontabs: the three        *)
(* standard streams and the one of the directory.                          *)
OwnFds == 4

ASSUME ScanInputs ==
  /\ \A d \in Directories :
       \/ d = NoDir
       \/ /\ d.there /\ DOMAIN d.files \subseteq Names
          /\ \A n \in DOMAIN d.files : d.files[n] \in Files \cup {Special}
  /\ Arrivals \subseteq Files
  /\ MAX_FD \in Nat /\ MAX_FD > OwnFds
  /\ MAX_CHANGES \in Nat

VARIABLES
  dir,      \* the directory on the disk
  changes,  \* how often it was changed
  at,       \* where the program is
  todo,     \* names that the directory_iterator will still return
  name,     \* the name it stands on
  fds,      \* descriptors in use
  report,   \* what became of each name
  end,      \* how main ended
  steady,   \* names nobody touched since the directory was opened
  e, start, now, then, spc, outcome   \* printTime, spc its pc

scan == <<at, todo, name, fds, report, end, steady>>
world == <<dir, changes>>
search == <<e, start, now, then, spc, outcome>>
svars == <<scan, world, search, vars>>

Search == INSTANCE PrintTime WITH pc <- spc, Entries <- {}

(* The clock shows times of the calendar. *)
ASSUME ScanClocks == YEAR_CAP \in Nat /\ \A t \in Clocks : Search!IsClock(t)

Present == DOMAIN dir.files

NoName == ""

Closed == [text |-> <<>>, fields |-> <<>>, user |-> NoUser, cmd |-> <<>>]
NoEntry == EntryView({}, {})
NoTime == [year |-> 0, mon |-> 0, mday |-> FIRST_DOM, hour |-> 0, min |-> 0]

(* load_entry is about to be called with f; no call of printTime runs. *)
Ready(f) ==
  /\ file' = f /\ pos' = 1 /\ ch' = EOF /\ pc' = "skip"
  /\ field' = 1 /\ num1' = 0 /\ num2' = 0 /\ num3' = 0
  /\ mem' = {} /\ flags' = {}
  /\ env' = NoEnv /\ user' = NoUser /\ lookup' = "none" /\ cmd' = <<>>
  /\ heap' = {} /\ ecode' = "e_none" /\ ret' = "none"

NoSearch ==
  /\ e' = NoEntry /\ start' = NoTime /\ now' = NoTime /\ then' = NoTime
  /\ spc' = "idle" /\ outcome' = "none"

ScanInit ==
  /\ dir \in Directories /\ changes = 0
  /\ at = "exists" /\ todo = {} /\ name = NoName /\ fds = OwnFds - 1
  /\ report = [n \in Names |-> "unseen"] /\ end = "running" /\ steady = {}
  /\ e = NoEntry /\ start = NoTime /\ now = NoTime /\ then = NoTime
  /\ spc = "idle" /\ outcome = "none"
  /\ file = Closed /\ pos = 1 /\ ch = EOF /\ pc = "skip"
  /\ field = 1 /\ num1 = 0 /\ num2 = 0 /\ num3 = 0
  /\ mem = {} /\ flags = {}
  /\ env = NoEnv /\ user = NoUser /\ lookup = "none" /\ cmd = <<>>
  /\ heap = {} /\ ecode = "e_none" /\ ret = "none"

End(how) == at' = "done" /\ end' = how
Continue(stage) == at' = stage /\ UNCHANGED end

(* The file name is finished with. *)
Reported(what) == report' = [report EXCEPT ![name] = what] /\ Continue("next")

-----------------------------------------------------------------------------
(***************************************************************************)
(* setPath.                                                                *)
(***************************************************************************)
Exists ==
  /\ at = "exists"
  /\ IF dir.there THEN Continue("open_dir") ELSE End("returned")
  /\ UNCHANGED <<todo, name, fds, report, steady, world, search, vars>>

(* The constructor of directory_iterator throws when the directory is      *)
(* gone; main catches what is thrown.                                      *)
OpenDir ==
  /\ at = "open_dir"
  /\ IF dir.there
     THEN /\ Continue("next") /\ fds' = fds + 1
          /\ todo' = Present /\ steady' = Present
     ELSE End("caught") /\ UNCHANGED <<fds, todo, steady>>
  /\ UNCHANGED <<name, report, world, search, vars>>

(* Slip: the iterator is not moved on. *)
NextNameStuck ==
  /\ at = "next"
  /\ \E n \in todo : name' = n
  /\ Continue("status")
  /\ UNCHANGED <<todo, fds, report, steady, world, search, vars>>

NextName ==
  /\ at = "next"
  /\ \E n \in todo : name' = n /\ todo' = todo \ {n}
  /\ Continue("status")
  /\ UNCHANGED <<fds, report, steady, world, search, vars>>

EndOfDir ==
  /\ at = "next" /\ todo = {}
  /\ fds' = fds - 1
  /\ End("returned")
  /\ UNCHANGED <<todo, name, report, steady, world, search, vars>>

(* is_regular_file(itr->status()): a file that is gone is none. *)
Status ==
  /\ at = "status"
  /\ IF name \in Present /\ dir.files[name] # Special
     THEN Continue("open") /\ UNCHANGED report
     ELSE Reported("skipped")
  /\ UNCHANGED <<todo, name, fds, steady, world, search, vars>>

-----------------------------------------------------------------------------
(***************************************************************************)
(* parseCrontab.  open fails when the file has gone since, when there is   *)
(* no descriptor left, or for a reason of the system's own (the file may   *)
(* not be read, its table of files is full, the disk fails); fdopen when   *)
(* there is no memory for the stream.                                      *)
(***************************************************************************)

(* Slip: -1 is taken for a descriptor. *)
OpenUntested ==
  /\ at = "open" /\ name \in Present
  /\ fds' = fds + 1
  /\ Continue("parse") /\ Ready(dir.files[name]) /\ UNCHANGED report
  /\ UNCHANGED <<todo, name, steady, world, search>>

(* Slip: the file is opened a second time, for the stream. *)
OpenTwice ==
  /\ at = "open" /\ name \in Present
  /\ IF fds + 1 < MAX_FD
     THEN fds' = fds + 2 /\ Continue("parse") /\ Ready(dir.files[name]) /\ UNCHANGED report
     ELSE Reported("no_fd") /\ UNCHANGED <<fds, vars>>
  /\ UNCHANGED <<todo, name, steady, world, search>>

Open ==
  /\ at = "open"
  /\ \/ /\ name \notin Present
        /\ Reported("gone") /\ UNCHANGED <<fds, vars>>
     \/ /\ name \in Present /\ fds >= MAX_FD
        /\ Reported("no_fd") /\ UNCHANGED <<fds, vars>>
     \/ /\ name \in Present /\ fds < MAX_FD
        /\ Reported("unreadable") /\ UNCHANGED <<fds, vars>>
     \/ /\ name \in Present /\ fds < MAX_FD
        /\ fds' = fds + 1
        /\ \/ Reported("no_stream") /\ UNCHANGED vars
           \/ Continue("parse") /\ Ready(dir.files[name]) /\ UNCHANGED report
  /\ UNCHANGED <<todo, name, steady, world, search>>

(* getpwnam opens the user database: it needs a descriptor besides the one *)
(* of the crontab, and fails when that was the last.                       *)
Parse ==
  /\ at = "parse"
  /\ Next
  /\ pc = "user" /\ fds >= MAX_FD => lookup' # "answered"
  /\ UNCHANGED <<scan, world, search>>

(* Slip: a file that is no crontab ends the walk. *)
LoadedGivesUp ==
  /\ at = "parse" /\ ret = "NULL"
  /\ report' = [report EXCEPT ![name] = "refused"] /\ End("returned")
  /\ Ready(Closed)
  /\ UNCHANGED <<todo, name, fds, steady, world, search>>

(* load_entry returned no entry. *)
Loaded ==
  /\ at = "parse" /\ ret = "NULL"
  /\ Reported(IF ecode = "e_memory" THEN "no_memory"
              ELSE IF lookup = "failed" THEN "no_user" ELSE "refused")
  /\ Ready(Closed)
  /\ UNCHANGED <<todo, name, fds, steady, world, search>>

(* A null pointer was written or read through. *)
Crash ==
  /\ at = "parse" /\ ret = "crash"
  /\ End("crashed")
  /\ UNCHANGED <<todo, name, fds, report, steady, world, search, vars>>

(* An entry: call printTime, which reads the clock. *)
PrintTime ==
  /\ at = "parse" /\ ret = "entry"
  /\ e' = EntryView(mem, flags)
  /\ \E t \in Clocks : start' = t /\ now' = t /\ then' = t
  /\ spc' = "month" /\ outcome' = "none"
  /\ Continue("search")
  /\ UNCHANGED <<todo, name, fds, report, steady, world, vars>>

SearchStep ==
  /\ at = "search"
  /\ Search!Next
  /\ UNCHANGED <<scan, world, vars>>

(* printTime returned, or threw an exception, which nobody before main     *)
(* catches.                                                                *)
Searched ==
  /\ at = "search" /\ outcome # "none"
  /\ IF outcome = "threw" THEN End("caught") /\ UNCHANGED report
     ELSE Reported(IF outcome = "printed" THEN "announced" ELSE "no_time")
  /\ Ready(Closed) /\ NoSearch
  /\ UNCHANGED <<todo, name, fds, steady, world>>

Program ==
  \/ Exists \/ OpenDir \/ NextName \/ EndOfDir \/ Status
  \/ Open \/ Parse \/ Loaded \/ Crash \/ PrintTime \/ SearchStep \/ Searched

-----------------------------------------------------------------------------
(***************************************************************************)
(* The others.  Whether readdir returns a name that was added or removed   *)
(* after the directory was opened is unspecified.  A change between two    *)
(* looks at the directory is made just before the second.                  *)
(***************************************************************************)
MayChange ==
  /\ at \in {"exists", "open_dir", "next", "status", "open"}
  /\ changes < MAX_CHANGES /\ changes' = changes + 1

Remove(n) ==
  /\ MayChange /\ n \in Present
  /\ dir' = Dir([m \in Present \ {n} |-> dir.files[m]])
  /\ todo' \in {todo, todo \ {n}}
  /\ steady' = steady \ {n}
  /\ UNCHANGED <<at, name, fds, report, end, search, vars>>

Install(n, f) ==
  /\ MayChange /\ dir.there
  /\ dir' = Dir([m \in Present \cup {n} |-> IF m = n THEN f ELSE dir.files[m]])
  /\ todo' \in IF n \notin Present /\ at \in {"next", "status", "open"}
               THEN {todo, todo \cup {n}} ELSE {todo}
  /\ steady' = steady \ {n}
  /\ UNCHANGED <<at, name, fds, report, end, search, vars>>

RemoveDir ==
  /\ MayChange /\ dir.there /\ Present = {}
  /\ dir' = NoDir
  /\ UNCHANGED <<scan, search, vars>>

Change ==
  \/ \E n \in Names : Remove(n) \/ \E f \in Arrivals : Install(n, f)
  \/ RemoveDir

ScanNext == Program \/ Change

(* The program goes on as long as it can; nobody has to change anything. *)
ScanSpec == ScanInit /\ [][ScanNext]_svars /\ WF_svars(Program)

-----------------------------------------------------------------------------
Fates == {"unseen", "skipped", "gone", "no_fd", "unreadable", "no_stream",
          "refused", "no_memory", "no_user", "no_time", "announced"}

(* Type invariant: the process never has more descriptors than it may, a   *)
(* stream is read only while load_entry runs, and printTime has an entry   *)
(* and a clock whenever it runs.                                           *)
ScanTypeOK ==
  /\ Present \subseteq Names
  /\ changes \in 0..MAX_CHANGES
  /\ at \in {"exists", "open_dir", "next", "status", "open", "parse", "search", "done"}
  /\ todo \subseteq Names /\ name \in Names \cup {NoName}
  /\ fds \in 0..MAX_FD
  /\ report \in [Names -> Fates]
  /\ end \in {"running", "returned", "caught", "crashed"}
  /\ at = "done" <=> end # "running"
  /\ steady \subseteq Present
  /\ at \in {"next", "status", "open"} => file = Closed
  /\ IF at = "search"
     THEN e = EntryView(mem, flags) /\ start \in Clocks /\ {now, then} \subseteq Search!Tm
     ELSE spc = "idle" /\ outcome = "none"

Opened == {n \in Names : report[n] \in
  {"no_stream", "refused", "no_memory", "no_user", "no_time", "announced"}}

HasJob(f) == f # Special /\ WellFormed(f)

(* What the system may deny the program, for which a job is not announced  *)
(* although it stayed there: a descriptor, the file, a stream, memory, an  *)
(* answer about the user (a descriptor again, when the file has the last). *)
SystemDenied == {"no_fd", "unreadable", "no_stream", "no_memory", "no_user"}

(* A walk that comes to its end has missed nothing, whatever others did to *)
(* the directory: every name that stayed there was looked at; and a name   *)
(* found no descriptor left only when so many files were opened before     *)
(* that the process, closing none of them, has used up its limit.          *)
NothingMissed ==
  end = "returned" =>
    \A n \in steady :
      /\ report[n] # "unseen"
      /\ report[n] = "no_fd" /\ changes = 0 => Cardinality(Opened) >= MAX_FD - OwnFds

(* "@monthly".  Its one day is a bit that no restarted scan looks at, and  *)
(* its months have the spare bit, which is the month that the search gives *)
(* up in when it began in the first one.                                   *)
AtMonthly(f) ==
  f.text[FirstField(f.text)] = AT /\ f.fields = StandsFor("monthly")

(* Such a walk has announced every job that stayed there as the first      *)
(* active line of its file, unless the system denied it what it needed; it *)
(* gives up the search for no other job than @monthly.                     *)
JobsAnnounced ==
  end = "returned" =>
    \A n \in steady :
      HasJob(dir.files[n]) /\ ~SettingFirst(dir.files[n]) =>
        \/ report[n] \in {"announced"} \cup SystemDenied
        \/ report[n] = "no_time" /\ AtMonthly(dir.files[n])

(* "An active line in a crontab is either an environment setting or a cron *)
(* command": a job is announced even if there is a setting before it.      *)
EveryJobRead ==
  end = "returned" =>
    \A n \in steady : HasJob(dir.files[n]) => report[n] \in {"announced"} \cup SystemDenied

(* A time field that was not written with a star in front. *)
Restricted(i) == file.fields[i][1].form # "all"

(* From the text to the answer: the minute, the hour and the day that the  *)
(* program prints for a file are among those written in it, unless they    *)
(* were written with a star.                                               *)
AnnouncesLine ==
  outcome = "printed" /\ WellFormed(file) =>
    /\ Restricted(1) => then.min \in Meaning(Fields[1], file.fields[1])
    /\ Restricted(2) => then.hour \in Meaning(Fields[2], file.fields[2])
    /\ Restricted(3) => then.mday \in Meaning(Fields[3], file.fields[3])

(* From the entry to the answer, whatever the text was: the minute, the    *)
(* hour and the day that are printed have their bits in the memory that    *)
(* load_entry filled, or their star among its flags, and the time is not   *)
(* before the clock that was read in between.                              *)
AnnouncesEntry ==
  outcome = "printed" =>
    /\ "MIN_STAR" \in flags \/ bit_test(mem, minute, then.min)
    /\ "HR_STAR" \in flags \/ bit_test(mem, hour, then.hour)
    /\ "DOM_STAR" \in flags \/ bit_test(mem, dom, then.mday - 1)
    /\ Search!NotBefore(then, start)

(* The program ends, unless printTime searches for the time of an entry    *)
(* that leaves a restarted scan nothing to find.                           *)
ProgramEnds ==
  \/ <>(at = "done")
  \/ <>[](at = "search" /\ ~Search!Schedulable)
=============================================================================
