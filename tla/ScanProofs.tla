----------------------------- MODULE ScanProofs -----------------------------
(***************************************************************************)
(* Proofs about a run of the program for any directory, any changes that   *)
(* others make to it, any texts and any clock: the walk misses no file     *)
(* that stays (NothingMissed), what it announces was stored by the parser  *)
(* and is not in the past (AnnouncesEntry) and is what the line says       *)
(* (AnnouncesLine), and no job is passed over (JobsAnnounced).             *)
(***************************************************************************)
EXTENDS Scan, Crontab5Proofs, FiniteSetTheorems

-----------------------------------------------------------------------------
(***************************************************************************)
(* printTime as it is called here is the routine of PrintTimeProofs, for   *)
(* the entries that EntryView can show.                                    *)
(***************************************************************************)
EntrySet == [minute : SUBSET Nat, hour : SUBSET Nat, dom : SUBSET Nat,
             month : SUBSET Nat, dow : SUBSET Nat, flags : SUBSET Flags]

PT == INSTANCE PrintTimeProofs WITH pc <- spc, Entries <- EntrySet

LEMMA SearchInputs == PT!PrintTimeInputs /\ PT!FieldBounds
<1>1. PT!FieldBounds
  BY FieldBounds DEF PT!FieldBounds, FIRST_DOM, FIRST_MONTH, PT!FIRST_DOM, PT!FIRST_MONTH
<1>2. PT!Entry = EntrySet
  BY DEF PT!Entry, EntrySet, PT!Flags, Flags
<1>3. ASSUME NEW t \in Clocks PROVE PT!IsClock(t)
  BY ScanClocks DEF Search!IsClock, PT!IsClock, Search!MONTH_COUNT, PT!MONTH_COUNT,
     Search!FIRST_DOM, PT!FIRST_DOM, Search!FIRST_MONTH, PT!FIRST_MONTH
<1> QED
  BY <1>1, <1>2, <1>3, ScanClocks DEF PT!PrintTimeInputs

LEMMA SameSteps == Search!Next => PT!Next
<1> USE DEF Search!FIRST_MINUTE, Search!FIRST_HOUR, Search!FIRST_DOM, Search!FIRST_MONTH,
       Search!MINUTE_COUNT, Search!HOUR_COUNT, Search!MONTH_COUNT,
       PT!FIRST_MINUTE, PT!FIRST_HOUR, PT!FIRST_DOM, PT!FIRST_MONTH,
       PT!MINUTE_COUNT, PT!HOUR_COUNT, PT!MONTH_COUNT,
       Search!Hits, Search!First, Search!Restart, Search!MoveTo, Search!Proceed,
       PT!Hits, PT!First, PT!Restart, PT!MoveTo, PT!Proceed
<1>1. /\ Search!MonthStar => PT!MonthStar
      /\ Search!DomStar => PT!DomStar
      /\ Search!HourStar => PT!HourStar
      /\ Search!MinStar => PT!MinStar
  BY DEF Search!MonthStar, PT!MonthStar, Search!DomStar, PT!DomStar,
     Search!HourStar, PT!HourStar, Search!MinStar, PT!MinStar
<1>2. Search!MonthFound => PT!MonthFound
  BY DEF Search!MonthFound, PT!MonthFound, Search!AtMonthScan, PT!AtMonthScan
<1>3. Search!MonthMissing => PT!MonthMissing
  BY Zenon DEF Search!MonthMissing, PT!MonthMissing, Search!AtMonthScan, PT!AtMonthScan,
     Search!NextYear, PT!NextYear
<1>4. Search!DomFound => PT!DomFound
  BY DEF Search!DomFound, PT!DomFound, Search!AtDomScan, PT!AtDomScan
<1>5. Search!DomMissing => PT!DomMissing
  BY Zenon DEF Search!DomMissing, PT!DomMissing, Search!AtDomScan, PT!AtDomScan
<1>6. Search!HourFound => PT!HourFound
  BY DEF Search!HourFound, PT!HourFound, Search!AtHourScan, PT!AtHourScan
<1>7. Search!HourMissing => PT!HourMissing
  BY Zenon DEF Search!HourMissing, PT!HourMissing, Search!AtHourScan, PT!AtHourScan
<1>8. Search!MinFound => PT!MinFound
  BY DEF Search!MinFound, PT!MinFound, Search!AtMinScan, PT!AtMinScan
<1>9. Search!MinMissing => PT!MinMissing
  BY Zenon DEF Search!MinMissing, PT!MinMissing, Search!AtMinScan, PT!AtMinScan
<1>10. Search!Announce => PT!Announce
  BY DEF Search!Announce, PT!Announce, Search!InCalendar, PT!InCalendar
<1> QED
  BY <1>1, <1>2, <1>3, <1>4, <1>5, <1>6, <1>7, <1>8, <1>9, <1>10 DEF Search!Next, PT!Next

(* What holds in a search. *)
SearchOK == PT!TypeOK /\ PT!SearchInv /\ PT!YearInv /\ PT!GiveUpInv

(* A step of the search keeps it, and the entry. *)
LEMMA SearchKept ==
  ASSUME SearchOK, [PT!Next]_(PT!vars)
  PROVE  SearchOK'
<1>1. PT!TypeOK /\ PT!SearchInv /\ PT!YearInv /\ PT!GiveUpInv
  BY DEF SearchOK
<1>2. PT!TypeOK'
  BY <1>1, PT!TypeNext, SearchInputs
<1>3. PT!SearchInv'
  BY <1>1, PT!SearchNext, SearchInputs
<1>4. PT!YearInv'
  BY <1>1, PT!YearNext, SearchInputs
<1>5. PT!GiveUpInv'
  BY <1>1, PT!GiveUpNext, SearchInputs
<1> QED
  BY <1>2, <1>3, <1>4, <1>5 DEF SearchOK

LEMMA SearchSteps ==
  ASSUME SearchOK, Search!Next
  PROVE  SearchOK' /\ e' = e
<1>1. PT!Next
  BY SameSteps
<1>2. SearchOK'
  BY <1>1, SearchKept
<1>3. e' = e
  BY <1>1 DEF PT!Next, PT!MonthStar, PT!MonthFound, PT!MonthMissing, PT!DomStar,
     PT!DomFound, PT!DomMissing, PT!HourStar, PT!HourFound, PT!HourMissing,
     PT!MinStar, PT!MinFound, PT!MinMissing, PT!Announce
<1> QED
  BY <1>2, <1>3

(* A search that begins satisfies it. *)
LEMMA SearchBegins == PT!Init => SearchOK
BY PT!TypeInit, PT!SearchInit, PT!YearInit, PT!GiveUpInit, SearchInputs DEF SearchOK

-----------------------------------------------------------------------------
(***************************************************************************)
(* What the parser leaves for printTime: an entry that has the flags of    *)
(* the code.  The bits need no care, since EntryView shows only those of   *)
(* the arrays.                                                             *)
(***************************************************************************)
FlagsOK == field \in 1..5 /\ flags \subseteq Flags

LEMMA FlagsNext ==
  ASSUME FlagsOK, Next
  PROVE  FlagsOK'
<1> USE DEF FlagsOK
<1>1. CASE SkipLine \/ NoMoreLines \/ FirstChar \/ AtNumerics
  BY <1>1 DEF SkipLine, NoMoreLines, FirstChar, AtNumerics, range, made
<1>2. CASE Dash
  BY <1>2 DEF Dash, range, Flags
<1>3. CASE AtNickname
  <2>1. \/ \E w \in NicknameWords : flags' = flags \cup Nickname(w).flags
        \/ flags' = flags
    BY <1>3 DEF AtNickname
  <2>2. field' = field
    BY <1>3 DEF AtNickname, range
  <2> QED
    BY <2>1, <2>2, NicknameStaysBelow
<1>4. CASE FieldStart
  <2>1. Fields[field].star \in Flags
    BY FieldsAre
  <2> QED
    BY <1>4, <2>1 DEF FieldStart, range
<1>5. CASE RangeStar \/ RangeNumber \/ RangeSpan \/ RangeStep \/ RangeElements \/ NextRange
  BY <1>5 DEF RangeStar, RangeNumber, RangeSpan, RangeStep, RangeElements, NextRange, range, made
<1>6. CASE ListEnd
  BY <1>6, FieldsAre DEF ListEnd, made
<1>7. CASE EndOfTime \/ Username \/ PwDup \/ EnvCopy \/ SetVariable \/ Command \/ Eof
  BY <1>7 DEF EndOfTime, Username, PwDup, EnvCopy, SetVariable, Command, Eof, range, made
<1> QED
  BY <1>1, <1>2, <1>3, <1>4, <1>5, <1>6, <1>7 DEF Next

LEMMA ViewIsEntry ==
  ASSUME NEW m, NEW fl \in SUBSET Flags
  PROVE  EntryView(m, fl) \in EntrySet
BY DEF EntryView, EntrySet, FieldBits

-----------------------------------------------------------------------------
(***************************************************************************)
(* The directory: what the three changes leave in it.                      *)
(***************************************************************************)
LEMMA EmptyDir == DOMAIN NoDir.files = {}
BY DEF NoDir

LEMMA PresentRemoved ==
  ASSUME NEW n, Remove(n)
  PROVE  n \in Present /\ Present' = Present \ {n}
BY DEF Remove, Present, Dir

LEMMA PresentInstalled ==
  ASSUME NEW n, NEW f, Install(n, f)
  PROVE  Present' = Present \cup {n}
BY DEF Install, Present, Dir

LEMMA PresentGone ==
  ASSUME RemoveDir
  PROVE  Present = {} /\ Present' = {}
BY EmptyDir DEF RemoveDir, Present

(* Only a change by others touches the directory. *)
LEMMA ProgramKeepsDir ==
  ASSUME Program
  PROVE  UNCHANGED world
BY DEF Program, Exists, OpenDir, NextName, EndOfDir, Status, Open, Parse, Loaded,
   Crash, PrintTime, SearchStep, Searched, world

-----------------------------------------------------------------------------
(***************************************************************************)
(* The inductive invariant.  Walk: a name that stayed is still to come, or *)
(* is the one the program is at, or was looked at.  Counting: as long as   *)
(* nobody changes the directory no name comes twice, so the descriptors    *)
(* in use are those of the process and one for each file opened.           *)
(* Searching: a running search satisfies the invariants of printTime, for  *)
(* the entry that is in memory.                                            *)
(***************************************************************************)
Before == {"exists", "open_dir"}
OnFile == {"status", "open", "parse", "search"}

Looked == {n \in Names : report[n] # "unseen"}
OnName == IF at \in OnFile THEN {name} ELSE {}

Walk ==
  /\ at \in Before => file = Closed /\ todo = {} /\ steady = {} /\ fds = OwnFds - 1
  /\ at \in {"next"} \cup OnFile => fds >= OwnFds
  /\ at \in OnFile => name \in Names
  /\ at # "done" => steady \subseteq todo \cup Looked \cup OnName
  /\ end = "returned" => steady \subseteq Looked

InUse == Cardinality(Opened) + (IF at \in {"parse", "search"} THEN 1 ELSE 0)

Undisturbed ==
  /\ \A n \in todo : report[n] = "unseen"
  /\ at \in OnFile => name \notin todo /\ report[name] = "unseen"
  /\ at \in Before => \A n \in Names : report[n] = "unseen"
  /\ at \in {"next"} \cup OnFile => fds = OwnFds + InUse
  /\ \A n \in Names : report[n] = "no_fd" => Cardinality(Opened) >= MAX_FD - OwnFds

Counting == IsFiniteSet(Opened) /\ (changes = 0 => Undisturbed)

Searching ==
  at = "search" => SearchOK /\ e = EntryView(mem, flags)

LEMMA ScanInitOK == ScanInit => ScanTypeOK /\ Walk /\ Counting /\ FlagsOK /\ Searching
<1> SUFFICES ASSUME ScanInit PROVE ScanTypeOK /\ Walk /\ Counting /\ FlagsOK /\ Searching
  OBVIOUS
<1> USE DEF ScanInit
<1>1. Present \subseteq Names
  BY ScanInputs, EmptyDir DEF Present
<1>2. ScanTypeOK
  BY <1>1, ScanInputs DEF ScanTypeOK, Fates, OwnFds
<1>3. Walk
  BY DEF Walk, Before, OnFile, OnName
<1>4. Opened = {}
  BY DEF Opened
<1>5. Counting
  BY <1>4, FS_EmptySet DEF Counting, Undisturbed, Before, OnFile
<1>6. FlagsOK /\ Searching
  BY DEF FlagsOK, Searching
<1> QED
  BY <1>2, <1>3, <1>5, <1>6

(* The search keeps what Searching and the type invariant say of it. *)
LEMMA SearchingNext ==
  ASSUME ScanTypeOK, FlagsOK, Searching, [ScanNext]_svars
  PROVE  FlagsOK' /\ Searching'
<1> USE DEF Searching
<1>1. CASE Parse
  <2>1. FlagsOK'
    BY <1>1, FlagsNext DEF Parse
  <2>2. at' = "parse"
    BY <1>1 DEF Parse, scan
  <2> QED
    BY <2>1, <2>2
<1>2. CASE PrintTime
  <2>1. UNCHANGED <<field, flags, mem>>
    BY <1>2 DEF PrintTime, vars, range, made
  <2>2. FlagsOK'
    BY <2>1 DEF FlagsOK
  <2>3. e' = EntryView(mem, flags) /\ e' \in EntrySet
    BY <1>2, ViewIsEntry DEF PrintTime, FlagsOK
  <2>4. PT!Init'
    BY <1>2, <2>3 DEF PrintTime, PT!Init
  <2>5. SearchOK'
    BY <2>4, SearchBegins, PTL
  <2> QED
    BY <2>1, <2>2, <2>3, <2>5
<1>3. CASE SearchStep
  <2>1. UNCHANGED <<field, flags, mem, at>> /\ at = "search" /\ Search!Next
    BY <1>3 DEF SearchStep, vars, range, made, scan
  <2>2. FlagsOK'
    BY <2>1 DEF FlagsOK
  <2>3. SearchOK' /\ e' = e
    BY <2>1, SearchSteps
  <2> QED
    BY <2>1, <2>2, <2>3
<1>4. CASE Open
  <2>1. FlagsOK'
    BY <1>4 DEF Open, Ready, FlagsOK, vars, range, made
  <2>2. at' # "search"
    BY <1>4 DEF Open, Reported, Continue
  <2> QED
    BY <2>1, <2>2
<1>5. CASE Loaded
  BY <1>5 DEF Loaded, Ready, FlagsOK, Reported, Continue
<1>6. CASE Searched
  BY <1>6 DEF Searched, Ready, FlagsOK, Reported, Continue, End
<1>7. CASE Exists \/ OpenDir \/ NextName \/ EndOfDir \/ Status \/ Crash
  <2>1. UNCHANGED <<field, flags>> /\ at' # "search"
    BY <1>7 DEF Exists, OpenDir, NextName, EndOfDir, Status, Crash, Reported, Continue, End,
       vars, range, made
  <2> QED
    BY <2>1 DEF FlagsOK
<1>8. CASE Change
  <2>1. UNCHANGED <<field, flags, at>> /\ at # "search"
    BY <1>8 DEF Change, Remove, Install, RemoveDir, MayChange, vars, range, made, scan
  <2> QED
    BY <2>1 DEF FlagsOK
<1>9. CASE UNCHANGED svars
  <2>1. UNCHANGED <<field, flags, mem, at, e, start, now, then, spc, outcome>>
    BY <1>9 DEF svars, vars, range, made, scan, search
  <2>2. FlagsOK'
    BY <2>1 DEF FlagsOK
  <2>3. ASSUME at = "search" PROVE SearchOK'
    <3>1. UNCHANGED PT!vars
      BY <2>1 DEF PT!vars
    <3> QED
      BY <2>3, <3>1, SearchKept
  <2> QED
    BY <2>1, <2>2, <2>3
<1> QED
  BY <1>1, <1>2, <1>3, <1>4, <1>5, <1>6, <1>7, <1>8, <1>9 DEF ScanNext, Program

-----------------------------------------------------------------------------
(***************************************************************************)
(* Type correctness of the whole program, in two parts: the walk and the   *)
(* directory, and printTime.                                               *)
(***************************************************************************)
WalkTypes ==
  /\ Present \subseteq Names /\ steady \subseteq Present
  /\ changes \in 0..MAX_CHANGES
  /\ at \in Before \cup {"next", "done"} \cup OnFile
  /\ todo \subseteq Names /\ name \in Names \cup {NoName}
  /\ fds \in 0..MAX_FD
  /\ report \in [Names -> Fates]
  /\ end \in {"running", "returned", "caught", "crashed"}
  /\ at = "done" <=> end # "running"
  /\ at \in {"next", "status", "open"} => file = Closed

SearchTypes ==
  IF at = "search"
  THEN e = EntryView(mem, flags) /\ start \in Clocks /\ {now, then} \subseteq Search!Tm
  ELSE spc = "idle" /\ outcome = "none"

LEMMA TypeParts == ScanTypeOK <=> WalkTypes /\ SearchTypes
BY DEF ScanTypeOK, WalkTypes, SearchTypes, Before, OnFile

LEMMA SearchTypesNext ==
  ASSUME ScanTypeOK, FlagsOK, Searching, [ScanNext]_svars
  PROVE  SearchTypes'
<1>1. CASE at' = "search"
  <2>1. Searching'
    BY SearchingNext
  <2>2. PT!TypeOK' /\ e' = EntryView(mem', flags')
    BY <1>1, <2>1 DEF Searching, SearchOK
  <2>3. start' \in Clocks /\ {now', then'} \subseteq Search!Tm
    BY <2>2 DEF PT!TypeOK, PT!Tm, Search!Tm
  <2> QED
    BY <1>1, <2>2, <2>3 DEF SearchTypes
<1>2. CASE at' # "search"
  <2> SUFFICES spc' = "idle" /\ outcome' = "none"
    BY <1>2 DEF SearchTypes
  <2>1. SearchTypes
    BY TypeParts
  <2>2. CASE Searched
    BY <2>2 DEF Searched, NoSearch
  <2>3. CASE PrintTime \/ SearchStep
    BY <1>2, <2>3 DEF PrintTime, SearchStep, Continue, scan
  <2>4. CASE UNCHANGED <<spc, outcome>> /\ at # "search"
    BY <2>1, <2>4 DEF SearchTypes
  <2>5. CASE Exists \/ OpenDir \/ NextName \/ EndOfDir \/ Status \/ Open \/ Parse \/ Loaded \/ Crash
    BY <2>4, <2>5 DEF Exists, OpenDir, NextName, EndOfDir, Status, Open, Parse, Loaded, Crash, search
  <2>6. CASE Change
    BY <2>4, <2>6 DEF Change, Remove, Install, RemoveDir, MayChange, search
  <2>7. CASE UNCHANGED svars
    BY <1>2, <2>4, <2>7 DEF svars, search, scan
  <2> QED
    BY <2>2, <2>3, <2>5, <2>6, <2>7 DEF ScanNext, Program
<1> QED
  BY <1>1, <1>2

LEMMA WalkNext ==
  ASSUME WalkTypes, Walk, [ScanNext]_svars
  PROVE  WalkTypes' /\ Walk'
<1> USE DEF WalkTypes, Walk, Before, OnFile, Looked, OnName, OwnFds
<1>0. MAX_FD \in Nat /\ MAX_FD > 4 /\ MAX_CHANGES \in Nat
  BY ScanInputs
<1>1. ASSUME Program PROVE dir' = dir /\ changes' = changes /\ Present' = Present
  BY <1>1, ProgramKeepsDir DEF world, Present
<1>2. CASE Exists
  BY <1>1, <1>2 DEF Exists, Program, Continue, End, vars
<1>3. CASE OpenDir
  BY <1>0, <1>1, <1>3 DEF OpenDir, Program, Continue, End, vars
<1>4. CASE NextName
  BY <1>1, <1>4 DEF NextName, Program, Continue, vars
<1>5. CASE EndOfDir
  BY <1>0, <1>1, <1>5 DEF EndOfDir, Program, End, vars
<1>6. CASE Status
  BY <1>1, <1>6 DEF Status, Program, Continue, Reported, Fates, vars
<1>7. CASE Open
  BY <1>0, <1>1, <1>7 DEF Open, Program, Continue, Reported, Fates, vars
<1>8. CASE Parse
  BY <1>1, <1>8 DEF Parse, Program, scan
<1>9. CASE Loaded
  BY <1>1, <1>9 DEF Loaded, Program, Continue, Reported, Fates, Ready
<1>10. CASE Crash
  BY <1>1, <1>10 DEF Crash, Program, End
<1>11. CASE PrintTime
  BY <1>1, <1>11 DEF PrintTime, Program, Continue
<1>12. CASE SearchStep
  BY <1>1, <1>12 DEF SearchStep, Program, scan
<1>13. CASE Searched
  BY <1>1, <1>13 DEF Searched, Program, Continue, End, Reported, Fates, Ready
<1>14. ASSUME NEW n \in Names, Remove(n) PROVE WalkTypes' /\ Walk'
  <2>1. Present' = Present \ {n}
    BY <1>14, PresentRemoved
  <2>2. /\ UNCHANGED <<at, name, fds, report, end, file>> /\ at # "done"
        /\ changes' = changes + 1 /\ changes < MAX_CHANGES
    BY <1>14 DEF Remove, MayChange, vars
  <2>3. todo' \subseteq todo /\ todo \ {n} \subseteq todo' /\ steady' = steady \ {n}
    BY <1>14 DEF Remove
  <2>4. WalkTypes'
    BY <1>0, <2>1, <2>2, <2>3
  <2> QED
    BY <2>2, <2>3, <2>4
<1>15. ASSUME NEW n \in Names, NEW f, Install(n, f) PROVE WalkTypes' /\ Walk'
  <2>1. Present' = Present \cup {n}
    BY <1>15, PresentInstalled
  <2>2. /\ UNCHANGED <<at, name, fds, report, end, file>> /\ at # "done"
        /\ changes' = changes + 1 /\ changes < MAX_CHANGES
    BY <1>15 DEF Install, MayChange, vars
  <2>3. /\ todo \subseteq todo' /\ todo' \subseteq todo \cup {n}
        /\ at \in Before => todo' = todo
        /\ steady' = steady \ {n}
    BY <1>15 DEF Install
  <2>4. WalkTypes'
    BY <1>0, <2>1, <2>2, <2>3
  <2> QED
    BY <2>2, <2>3, <2>4
<1>16. CASE RemoveDir
  BY <1>0, <1>16, PresentGone DEF RemoveDir, MayChange, vars, scan
<1>17. CASE UNCHANGED svars
  BY <1>17 DEF svars, vars, scan, world, Present
<1> QED
  BY <1>2, <1>3, <1>4, <1>5, <1>6, <1>7, <1>8, <1>9, <1>10, <1>11, <1>12, <1>13, <1>14,
     <1>15, <1>16, <1>17 DEF ScanNext, Program, Change

-----------------------------------------------------------------------------
(***************************************************************************)
(* The descriptors.  A report of a name that had none adds it to the files *)
(* opened, or does not, as the report says.                                *)
(***************************************************************************)
OpenedFates == {"no_stream", "refused", "no_memory", "no_user", "no_time", "announced"}

LEMMA ReportCounts ==
  ASSUME WalkTypes, name \in Names, IsFiniteSet(Opened),
         NEW what \in Fates, report' = [report EXCEPT ![name] = what]
  PROVE  /\ IsFiniteSet(Opened')
         /\ Cardinality(Opened) \in Nat
         /\ \A n \in Names : n # name => report'[n] = report[n]
         /\ report'[name] = what
         /\ report[name] = "unseen" =>
              Cardinality(Opened') = Cardinality(Opened) + (IF what \in OpenedFates THEN 1 ELSE 0)
<1>1. /\ \A n \in Names : n # name => report'[n] = report[n]
      /\ report'[name] = what
  BY DEF WalkTypes
<1>2. IsFiniteSet(Opened \cup {name}) /\ Cardinality(Opened) \in Nat
  BY FS_AddElement, FS_CardinalityType
<1>3. Opened' \subseteq Opened \cup {name}
  BY <1>1 DEF Opened
<1>4. IsFiniteSet(Opened')
  BY <1>2, <1>3, FS_Subset
<1>5. ASSUME report[name] = "unseen", what \in OpenedFates
      PROVE  Cardinality(Opened') = Cardinality(Opened) + 1
  <2>1. Opened' = Opened \cup {name} /\ name \notin Opened
    BY <1>1, <1>5 DEF Opened, OpenedFates
  <2> QED
    BY <2>1, FS_AddElement
<1>6. ASSUME report[name] = "unseen", what \notin OpenedFates
      PROVE  Opened' = Opened
  BY <1>1, <1>6 DEF Opened, OpenedFates
<1> QED
  BY <1>1, <1>2, <1>4, <1>5, <1>6

LEMMA SameReport ==
  ASSUME report' = report
  PROVE  Opened' = Opened
BY DEF Opened

(* A step that finishes with the file name, which was opened if the step   *)
(* says so, keeps count.                                                   *)
LEMMA FinishedCounts ==
  ASSUME WalkTypes, Walk, Counting, at \in OnFile,
         NEW what \in Fates \ {"unseen"},
         report' = [report EXCEPT ![name] = what],
         todo' = todo, name' = name, changes' = changes, at' = "next",
         what = "no_stream" => fds' = fds + 1,
         what # "no_stream" => fds' = fds,
         what \in OpenedFates \ {"no_stream"} <=> at \in {"parse", "search"},
         what = "no_fd" => fds >= MAX_FD
  PROVE  Counting'
<1>1. name \in Names /\ IsFiniteSet(Opened)
  BY DEF Walk, Counting
<1>2. /\ IsFiniteSet(Opened') /\ Cardinality(Opened) \in Nat
      /\ \A n \in Names : n # name => report'[n] = report[n]
      /\ report'[name] = what
      /\ report[name] = "unseen" =>
           Cardinality(Opened') = Cardinality(Opened) + (IF what \in OpenedFates THEN 1 ELSE 0)
  BY <1>1, ReportCounts
<1>3. ASSUME changes' = 0 PROVE Undisturbed'
  <2>1. Undisturbed
    BY <1>3 DEF Counting
  <2>2. PICK k : k = Cardinality(Opened)
    OBVIOUS
  <2>3. PICK l : l = Cardinality(Opened')
    OBVIOUS
  <2>4. /\ \A n \in todo : report[n] = "unseen" /\ n # name
        /\ report[name] = "unseen"
        /\ \A n \in Names : report[n] = "no_fd" => k >= MAX_FD - OwnFds
        /\ at \notin {"parse", "search"} => fds = OwnFds + k
        /\ at \in {"parse", "search"} => fds = OwnFds + k + 1
    BY <1>2, <2>1, <2>2 DEF Undisturbed, InUse, OnFile, OwnFds
  <2>5. /\ k \in Nat /\ l \in Nat
        /\ what \in OpenedFates => l = k + 1
        /\ what \notin OpenedFates => l = k
    BY <1>2, <2>2, <2>3, <2>4
  <2>6. \A n \in todo : report'[n] = "unseen"
    BY <1>2, <2>4 DEF WalkTypes
  <2>7. fds' = OwnFds + l
    BY <2>4, <2>5 DEF OwnFds, OpenedFates
  <2>8. ASSUME NEW n \in Names, report'[n] = "no_fd" PROVE l >= MAX_FD - OwnFds
    <3>1. CASE n = name
      BY <1>2, <2>4, <2>5, <2>8, <3>1, ScanInputs DEF OpenedFates, OwnFds, WalkTypes
    <3>2. CASE n # name
      BY <1>2, <2>4, <2>5, <2>8, <3>2, ScanInputs DEF OwnFds
    <3> QED
      BY <3>1, <3>2
  <2>9. InUse' = l
    BY <2>3, <2>5 DEF InUse
  <2> QED
    BY <2>3, <2>6, <2>7, <2>8, <2>9 DEF Undisturbed, OnFile, Before
<1> QED
  BY <1>2, <1>3 DEF Counting

(* A step that reports nothing keeps count, if the descriptors agree. *)
LEMMA UnreportedCounts ==
  ASSUME WalkTypes, Walk, Counting, report' = report, todo' \subseteq todo,
         changes' = changes,
         at' \in OnFile =>
           \/ at \in OnFile /\ name' = name /\ todo' = todo
           \/ at = "next" /\ name' \in todo \ todo',
         at' \in Before => at \in Before,
         at' = "next" => at = "next" /\ fds' = fds,
         at' \in {"status", "open"} => at \notin {"parse", "search"} /\ fds' = fds,
         at' \in {"parse", "search"} =>
           \/ at \in {"parse", "search"} /\ fds' = fds
           \/ at \notin {"parse", "search"} /\ fds' = fds + 1
  PROVE  Counting'
<1>1. Opened' = Opened /\ IsFiniteSet(Opened) /\ Cardinality(Opened) \in Nat
  BY SameReport, FS_CardinalityType DEF Counting
<1>2. PICK k : k = Cardinality(Opened)
  OBVIOUS
<1>3. ASSUME changes' = 0 PROVE Undisturbed'
  <2>1. Undisturbed
    BY <1>3 DEF Counting
  <2>2. /\ \A n \in todo' : report'[n] = "unseen"
        /\ at' \in OnFile => name' \notin todo' /\ report'[name'] = "unseen"
        /\ at' \in Before => \A n \in Names : report'[n] = "unseen"
    BY <2>1 DEF Undisturbed
  <2>3. \A n \in Names : report'[n] = "no_fd" => Cardinality(Opened') >= MAX_FD - OwnFds
    BY <1>1, <2>1 DEF Undisturbed
  <2>4. at \in {"next"} \cup OnFile =>
          fds = OwnFds + (k + (IF at \in {"parse", "search"} THEN 1 ELSE 0))
    BY <1>2, <2>1 DEF Undisturbed, InUse
  <2>5. at' \in {"next"} \cup OnFile =>
          fds' = OwnFds + (k + (IF at' \in {"parse", "search"} THEN 1 ELSE 0))
    BY <1>1, <1>2, <2>4 DEF OnFile, OwnFds
  <2>6. InUse' = k + (IF at' \in {"parse", "search"} THEN 1 ELSE 0)
    BY <1>1, <1>2 DEF InUse
  <2> QED
    BY <2>2, <2>3, <2>5, <2>6 DEF Undisturbed
<1> QED
  BY <1>1, <1>3 DEF Counting

LEMMA CountingNext ==
  ASSUME WalkTypes, Walk, Counting, [ScanNext]_svars
  PROVE  Counting'
<1> USE DEF OnFile, Before
<1>1. ASSUME Program PROVE changes' = changes
  BY <1>1, ProgramKeepsDir DEF world
<1>2. CASE Exists
  BY <1>1, <1>2, UnreportedCounts DEF Exists, Program, Continue, End
<1>3. CASE OpenDir
  <2>1. CASE at' = "next"
    <3>1. fds' = fds + 1 /\ report' = report /\ todo' = Present
      BY <1>3, <2>1 DEF OpenDir, Continue, End
    <3>2. IsFiniteSet(Opened') /\ Opened' = Opened
      BY <3>1, SameReport DEF Counting
    <3>3. ASSUME changes' = 0 PROVE Undisturbed'
      <4>1. \A n \in Names : report[n] = "unseen"
        BY <1>1, <1>3, <3>3 DEF Counting, Undisturbed, OpenDir, Program
      <4>2. Opened = {}
        BY <4>1 DEF Opened
      <4>3. Cardinality(Opened') = 0
        BY <3>2, <4>2, FS_EmptySet
      <4>4. fds = OwnFds - 1
        BY <1>3 DEF Walk, OpenDir
      <4>5. \A n \in todo' : report'[n] = "unseen"
        BY <3>1, <4>1 DEF WalkTypes
      <4> QED
        BY <2>1, <3>1, <4>1, <4>3, <4>4, <4>5 DEF Undisturbed, InUse, OwnFds
    <3> QED
      BY <3>2, <3>3 DEF Counting
  <2>2. CASE at' # "next"
    BY <1>1, <1>3, <2>2, UnreportedCounts DEF OpenDir, Program, Continue, End
  <2> QED
    BY <2>1, <2>2
<1>4. CASE NextName
  BY <1>1, <1>4, UnreportedCounts DEF NextName, Program, Continue
<1>5. CASE EndOfDir
  BY <1>1, <1>5, UnreportedCounts DEF EndOfDir, Program, End
<1>6. CASE Status
  <2>1. CASE at' = "open"
    <3>1. UNCHANGED <<report, fds, todo, name>> /\ at = "status"
      BY <1>6, <2>1 DEF Status, Continue, Reported
    <3>2. changes' = changes
      BY <1>1, <1>6 DEF Program
    <3> QED
      BY <2>1, <3>1, <3>2, UnreportedCounts
  <2>2. CASE at' # "open"
    <3>1. /\ report' = [report EXCEPT ![name] = "skipped"]
          /\ todo' = todo /\ name' = name /\ at' = "next" /\ fds' = fds /\ at = "status"
      BY <1>6, <2>2 DEF Status, Continue, Reported
    <3>2. PICK w : w = "skipped"
      OBVIOUS
    <3>3. w \in Fates \ {"unseen"} /\ w \notin OpenedFates /\ w \notin {"no_fd", "no_stream"}
      BY <3>2 DEF Fates, OpenedFates
    <3> QED
      BY <1>1, <1>6, <3>1, <3>2, <3>3, FinishedCounts DEF Program
  <2> QED
    BY <2>1, <2>2
<1>7. CASE Open
  <2>1. CASE at' = "parse"
    <3>1. report' = report /\ fds' = fds + 1 /\ todo' = todo /\ name' = name /\ at = "open"
      BY <1>7, <2>1 DEF Open, Continue, Reported
    <3>2. changes' = changes
      BY <1>1, <1>7 DEF Program
    <3> QED
      BY <2>1, <3>1, <3>2, UnreportedCounts
  <2>2. ASSUME at' # "parse" PROVE Counting'
    <3>1. PICK w \in {"gone", "no_fd", "unreadable", "no_stream"} :
            /\ report' = [report EXCEPT ![name] = w]
            /\ w = "no_stream" => fds' = fds + 1
            /\ w # "no_stream" => fds' = fds
            /\ w = "no_fd" => fds >= MAX_FD
      BY <1>7, <2>2 DEF Open, Continue, Reported
    <3>2. todo' = todo /\ name' = name /\ at' = "next" /\ at = "open"
      BY <1>7, <2>2 DEF Open, Continue, Reported
    <3>3. w \in Fates \ {"unseen"} /\ (w \in OpenedFates <=> w = "no_stream")
      BY <3>1 DEF Fates, OpenedFates
    <3> QED
      BY <1>1, <1>7, <3>1, <3>2, <3>3, FinishedCounts DEF Program
  <2> QED
    BY <2>1, <2>2
<1>8. CASE Parse
  <2>1. UNCHANGED <<at, report, fds, todo, name>> /\ at = "parse"
    BY <1>8 DEF Parse, scan
  <2>2. changes' = changes
    BY <1>1, <1>8 DEF Program
  <2> QED
    BY <2>1, <2>2, UnreportedCounts
<1>9. CASE Loaded
  <2>1. PICK w \in {"no_memory", "no_user", "refused"} : report' = [report EXCEPT ![name] = w]
    BY <1>9 DEF Loaded, Reported
  <2>2. todo' = todo /\ name' = name /\ at' = "next" /\ at = "parse" /\ fds' = fds
    BY <1>9 DEF Loaded, Reported, Continue
  <2>3. w \in Fates \ {"unseen"} /\ w \in OpenedFates \ {"no_stream"} /\ w # "no_fd"
    BY <2>1 DEF Fates, OpenedFates
  <2> QED
    BY <1>1, <1>9, <2>1, <2>2, <2>3, FinishedCounts DEF Program
<1>10. CASE Crash
  BY <1>1, <1>10, UnreportedCounts DEF Crash, Program, End
<1>11. CASE PrintTime
  <2>1. UNCHANGED <<report, fds, todo, name>> /\ at = "parse" /\ at' = "search"
    BY <1>11 DEF PrintTime, Continue
  <2>2. changes' = changes
    BY <1>1, <1>11 DEF Program
  <2> QED
    BY <2>1, <2>2, UnreportedCounts
<1>12. CASE SearchStep
  <2>1. UNCHANGED <<at, report, fds, todo, name>> /\ at = "search"
    BY <1>12 DEF SearchStep, scan
  <2>2. changes' = changes
    BY <1>1, <1>12 DEF Program
  <2> QED
    BY <2>1, <2>2, UnreportedCounts
<1>13. CASE Searched
  <2>1. CASE at' = "done"
    BY <1>1, <1>13, <2>1, UnreportedCounts DEF Searched, Program, End, Reported, Continue
  <2>2. CASE at' # "done"
    <3>1. PICK w \in {"announced", "no_time"} : report' = [report EXCEPT ![name] = w]
      BY <1>13, <2>2 DEF Searched, Reported, End
    <3>2. todo' = todo /\ name' = name /\ at' = "next" /\ at = "search" /\ fds' = fds
      BY <1>13, <2>2 DEF Searched, Reported, Continue, End
    <3>3. w \in Fates \ {"unseen"} /\ w \in OpenedFates \ {"no_stream"} /\ w # "no_fd"
      BY <3>1 DEF Fates, OpenedFates
    <3> QED
      BY <1>1, <1>13, <3>1, <3>2, <3>3, FinishedCounts DEF Program
  <2> QED
    BY <2>1, <2>2
<1>14. CASE Change
  <2>1. report' = report /\ changes' = changes + 1 /\ changes \in Nat
    <3>1. changes \in Nat
      BY ScanInputs DEF WalkTypes
    <3>2. MayChange /\ report' = report
      BY <1>14 DEF Change, Remove, Install, RemoveDir, scan
    <3> QED
      BY <3>1, <3>2 DEF MayChange
  <2> QED
    BY <2>1, SameReport DEF Counting
<1>15. CASE UNCHANGED svars
  <2>1. UNCHANGED <<report, changes, todo, at, name, fds>>
    BY <1>15 DEF svars, scan, world
  <2> QED
    BY <2>1 DEF Counting, Undisturbed, InUse, Opened
<1> QED
  BY <1>2, <1>3, <1>4, <1>5, <1>6, <1>7, <1>8, <1>9, <1>10, <1>11, <1>12, <1>13, <1>14,
     <1>15 DEF ScanNext, Program

-----------------------------------------------------------------------------
(***************************************************************************)
(* What printTime sees of a field: the whole bytes of its array.           *)
(***************************************************************************)
Seen(m, i) == FieldBits(m, Fields[i].name, bitstr_size(Count(i)))

LEMMA ViewSeen ==
  ASSUME NEW m, NEW fl
  PROVE  /\ EntryView(m, fl).minute = Seen(m, 1) /\ EntryView(m, fl).hour = Seen(m, 2)
         /\ EntryView(m, fl).dom = Seen(m, 3) /\ EntryView(m, fl).month = Seen(m, 4)
         /\ EntryView(m, fl).flags = fl
BY FieldNames, FieldCounts DEF EntryView, Seen

(* Each array reaches up to the next one. *)
LEMMA ArrayEnds ==
  ASSUME NEW i \in 1..4
  PROVE  /\ FirstBit(i) + 8 * bitstr_size(Count(i)) = FirstBit(i + 1)
         /\ bitstr_size(Count(i)) \in Nat \ {0}
<1>1. /\ Fields[1].name = minute /\ Fields[2].name = hour /\ Fields[3].name = dom
      /\ Fields[4].name = month /\ Fields[5].name = dow
  BY FieldNames
<1>2. \A k \in 1..5 : Fields[k].name \in Nat /\ Count(k) \in Nat \ {0}
  BY FieldPlaces
<1>3. bitstr_size(Count(i)) \in Nat \ {0}
  BY <1>2, SizeIs
<1>4. Fields[i + 1].name = Fields[i].name + bitstr_size(Count(i))
  BY <1>1, FieldCounts DEF hour, dom, month, dow
<1>5. PICK n, s, q : n = Fields[i].name /\ s = bitstr_size(Count(i)) /\ q = Fields[i + 1].name
  OBVIOUS
<1>6. n \in Nat /\ s \in Nat /\ q = n + s
  BY <1>2, <1>3, <1>4, <1>5
<1>7. 8 * n + 8 * s = 8 * q
  BY <1>6
<1> QED
  BY <1>3, <1>5, <1>7 DEF FirstBit

LEMMA SeenIs ==
  ASSUME NEW m, NEW i \in 1..4, NEW b
  PROVE  b \in Seen(m, i) <=> /\ b \in Nat /\ FirstBit(i) + b < FirstBit(i + 1)
                              /\ FirstBit(i) + b \in m
<1>1. PICK n, s, p, q : n = Fields[i].name /\ s = bitstr_size(Count(i)) /\ p = FirstBit(i) /\ q = FirstBit(i + 1)
  OBVIOUS
<1>2. n \in Nat /\ s \in Nat \ {0} /\ p = 8 * n /\ p + 8 * s = q
  BY <1>1, FieldPlaces, ArrayEnds DEF FirstBit
<1>3. Seen(m, i) = {j \in 0..(8 * s - 1) : bit_test(m, n, j)}
  BY <1>1 DEF Seen, FieldBits
<1>4. \A j \in Nat : Address(n, j) = p + j
  BY <1>2, AddressIs
<1>5. b \in 0..(8 * s - 1) <=> b \in Nat /\ p + b < q
  BY <1>2
<1>6. b \in Seen(m, i) <=> b \in Nat /\ p + b < q /\ Address(n, b) \in m
  BY <1>3, <1>5 DEF bit_test
<1> QED
  BY <1>1, <1>4, <1>6

LEMMA FieldLast ==
  ASSUME NEW i \in 1..4, NEW k \in 1..5, i < k
  PROVE  FirstBit(i + 1) <= FirstBit(k)
<1>1. PICK p, q, c, j : p = FirstBit(k) /\ j = i + 1 /\ q = FirstBit(j) /\ c = Count(j)
  OBVIOUS
<1>2. j \in 1..5 /\ (j < k \/ j = k)
  BY <1>1
<1>3. p \in Nat /\ q \in Nat /\ c \in Nat
  BY <1>1, <1>2, FieldPlaces DEF FirstBit
<1>4. j < k => q + c <= p
  BY <1>1, <1>2, FieldsAscend
<1> QED
  BY <1>1, <1>2, <1>3, <1>4

(* With no stray bits, all it sees are values of the field. *)
LEMMA SeenOfBits ==
  ASSUME NEW m \in SUBSET AllBits, NEW i \in 1..4, NEW b \in Seen(m, i)
  PROVE  b + Fields[i].low \in Shown(m, i)
<1>1. PICK p, c, y, l, h : /\ p = FirstBit(i) /\ c = Count(i) /\ y = FirstBit(i) + b
                           /\ l = Fields[i].low /\ h = Fields[i].high
  OBVIOUS
<1>2. b \in Nat /\ y < FirstBit(i + 1) /\ y \in m
  BY <1>1, SeenIs
<1>3. /\ p \in Nat /\ c \in Nat /\ l \in Nat /\ h \in Nat /\ c = h - l + 1 /\ y = p + b
      /\ Fields[i].name \in Nat /\ p = 8 * Fields[i].name
  BY <1>1, FieldPlaces, FieldsAre DEF FirstBit, Count
<1>4. PICK k \in 1..5 : y \in Bits(k)
  BY <1>2 DEF AllBits
<1>5. PICK q, d : q = FirstBit(k) /\ d = Count(k)
  OBVIOUS
<1>6. q \in Nat /\ d \in Nat /\ q <= y /\ y < q + d
  BY <1>4, <1>5, FieldPlaces DEF Bits, FirstBit
<1>7. ~ (k < i)
  <2>1. ASSUME k < i PROVE q + d <= p
    BY <1>1, <1>5, <2>1, FieldsAscend
  <2> QED
    BY <1>2, <1>3, <1>6, <2>1
<1>8. ~ (i < k)
  <2>1. ASSUME i < k PROVE FirstBit(i + 1) <= q
    BY <1>5, <2>1, FieldLast
  <2>2. PICK z : z = FirstBit(i + 1)
    OBVIOUS
  <2>3. i + 1 \in 1..5
    OBVIOUS
  <2>4. z \in Nat
    BY <2>2, <2>3, FieldPlaces DEF FirstBit
  <2> QED
    BY <1>2, <1>3, <1>6, <2>1, <2>2, <2>4
<1>9. k = i
  BY <1>7, <1>8
<1>10. b < c
  <2>1. q = p /\ d = c
    BY <1>1, <1>5, <1>9
  <2>2. y < p + c /\ y = p + b /\ p \in Nat /\ c \in Nat
    BY <1>3, <1>6, <2>1
  <2>3. b \in Nat
    BY <1>2
  <2> QED
    BY <2>2, <2>3
<1>11. b + l \in l..h /\ (b + l) - l = b
  BY <1>2, <1>3, <1>10
<1>12. Address(Fields[i].name, b) = y
  BY <1>2, <1>3, AddressIs
<1> QED
  BY <1>1, <1>2, <1>11, <1>12 DEF Shown

(* Of a field that a nickname does not fill it sees the first bit only. *)
LEMMA SundaysAt ==
  ASSUME NEW m, NEW y \in Nat, y < FirstBit(5)
  PROVE  y \in Sundays(m) <=> y \in m
<1>1. PICK n : n = Fields[5].name
  OBVIOUS
<1>2. n \in Nat /\ n = dow /\ FirstBit(5) = 8 * n
  BY <1>1, FieldPlaces, FieldNames DEF FirstBit
<1>3. Address(dow, 0) = 8 * n + 0 /\ Address(dow, 7) = 8 * n + 7
  BY <1>2, AddressIs
<1>4. y # Address(dow, 0) /\ y # Address(dow, 7)
  BY <1>2, <1>3
<1> QED
  BY <1>4 DEF Sundays, bit_set

LEMMA BelowDow ==
  ASSUME NEW i \in 1..4, NEW y \in Nat, y < FirstBit(i + 1)
  PROVE  y < FirstBit(5)
<1>1. FirstBit(i + 1) <= FirstBit(5)
  BY FieldLast
<1>2. PICK p, q, k : k = i + 1 /\ p = FirstBit(k) /\ q = FirstBit(5)
  OBVIOUS
<1>3. p \in Nat /\ q \in Nat
  BY <1>2, FieldPlaces DEF FirstBit
<1> QED
  BY <1>1, <1>2, <1>3

LEMMA SeenOfNickname ==
  ASSUME NEW A, NEW i \in 1..4, i \notin A, NEW b \in Seen(Sundays(NickBits(A)), i)
  PROVE  b = 0
<1>1. PICK p, y : p = FirstBit(i) /\ y = FirstBit(i) + b
  OBVIOUS
<1>2. b \in Nat /\ y < FirstBit(i + 1) /\ y \in Sundays(NickBits(A))
  BY <1>1, SeenIs
<1>3. p \in Nat /\ y = p + b /\ y \in Nat
  BY <1>1, <1>2, FieldPlaces DEF FirstBit
<1>4. y \in NickBits(A)
  BY <1>2, <1>3, BelowDow, SundaysAt
<1>5. PICK k \in 1..5 : y \in FieldOrFirst(A, k)
  BY <1>4 DEF NickBits
<1>6. PICK q, d : q = FirstBit(k) /\ d = Count(k)
  OBVIOUS
<1>7. q \in Nat /\ d \in Nat
  BY <1>6, FieldPlaces DEF FirstBit
<1>8. q <= y /\ y <= q + d
  BY <1>5, <1>6, <1>7 DEF FieldOrFirst
<1>9. CASE k = i
  <2>1. y = p
    BY <1>1, <1>5, <1>9 DEF FieldOrFirst
  <2> QED
    BY <1>2, <1>3, <2>1
<1>10. CASE k < i
  <2>1. q + d <= p
    BY <1>1, <1>6, <1>10, FieldsAscend
  <2> QED
    BY <1>2, <1>3, <1>7, <1>8, <2>1
<1>11. CASE i < k
  <2>1. FirstBit(i + 1) <= q
    BY <1>6, <1>11, FieldLast
  <2>2. PICK z, j : j = i + 1 /\ z = FirstBit(j)
    OBVIOUS
  <2>3. z \in Nat
    BY <2>2, FieldPlaces DEF FirstBit
  <2> QED
    BY <1>2, <1>3, <1>7, <1>8, <2>1, <2>2, <2>3
<1> QED
  BY <1>9, <1>10, <1>11

(* The first bits of all fields, and the second ones of those it fills. *)
LEMMA SeenFirst ==
  ASSUME NEW A, NEW i \in 1..4
  PROVE  /\ 0 \in Seen(Sundays(NickBits(A)), i)
         /\ i \in A => 1 \in Seen(Sundays(NickBits(A)), i)
<1>1. PICK p, c, s, q : p = FirstBit(i) /\ c = Count(i) /\ s = bitstr_size(Count(i)) /\ q = FirstBit(i + 1)
  OBVIOUS
<1>2. p \in Nat /\ c \in Nat \ {0} /\ s \in Nat \ {0} /\ q = p + 8 * s
  BY <1>1, FieldPlaces, ArrayEnds DEF FirstBit
<1>3. p + 0 < q /\ p + 1 < q /\ p + 0 = p /\ p + 1 \in p..(p + c) /\ p \in p..(p + c)
  BY <1>2
<1>4. p \in FieldOrFirst(A, i) /\ (i \in A => p + 1 \in FieldOrFirst(A, i))
  BY <1>1, <1>3 DEF FieldOrFirst
<1>5. p \in NickBits(A) /\ (i \in A => p + 1 \in NickBits(A))
  BY <1>4 DEF NickBits
<1>6. \A y \in Nat : y < q /\ y \in NickBits(A) => y \in Sundays(NickBits(A))
  BY <1>1, BelowDow, SundaysAt
<1>7. p + 0 \in Sundays(NickBits(A)) /\ (i \in A => p + 1 \in Sundays(NickBits(A)))
  BY <1>2, <1>3, <1>5, <1>6
<1> QED
  BY <1>1, <1>3, <1>7, SeenIs

-----------------------------------------------------------------------------
(***************************************************************************)
(* From the line to what printTime sees of it.                             *)
(***************************************************************************)
Numeric(g) == mem \subseteq AllBits /\ Starred(g)

ByNickname(g, w) == w \in TimeWords /\ Nicknamed(g, w) /\ mem = Sundays(NickBits(Wide(w)))

LEMMA EntrySays ==
  ASSUME LoadInv, ret = "entry", NEW g, g = file, WellFormed(g)
  PROVE  /\ ~SettingFirst(g) /\ Joined(g)
         /\ Numeric(g) \/ \E w : ByNickname(g, w)
<1>1. ~SettingFirst(g)
  BY DEF LoadInv, SettingRefused, Refused
<1>2. Tells(g)
  BY <1>1 DEF LoadInv, Follows
<1>3. /\ Joined(g)
      /\ \/ field = 5 /\ Starred(g)
         \/ \E w \in TimeWords : Nicknamed(g, w) /\ mem = Sundays(Nickname(w).mem)
  BY <1>2 DEF Tells, Accepted
<1>4. CASE field = 5 /\ Starred(g)
  <2>1. mem \subseteq AllBits
    BY <1>4 DEF LoadInv, Selecting
  <2> QED
    BY <1>1, <1>3, <1>4, <2>1 DEF Numeric
<1>5. ASSUME NEW w \in TimeWords, Nicknamed(g, w), mem = Sundays(Nickname(w).mem)
      PROVE  ByNickname(g, w)
  BY <1>5, NicknameBits DEF ByNickname
<1> QED
  BY <1>1, <1>3, <1>4, <1>5

LEMMA StarsDiffer ==
  \A i \in 1..5 : /\ Fields[i].star # "DONT_LOG"
                  /\ \A k \in 1..5 : Fields[i].star = Fields[k].star => i = k
<1>1. /\ Fields[1].star = "MIN_STAR" /\ Fields[2].star = "HR_STAR" /\ Fields[3].star = "DOM_STAR"
      /\ Fields[4].star = "MON_STAR" /\ Fields[5].star = "DOW_STAR"
  BY DEF Fields, FieldSpec
<1> QED
  BY <1>1

LEMMA StandsForIs ==
  ASSUME NEW w \in TimeWords, NEW i \in 1..5
  PROVE  StandsFor(w)[i] = IF i \in Wide(w) THEN Each ELSE IF i \in {3, 4} THEN One ELSE Zero
BY DEF StandsFor, Wide, TimeWords, NicknameWords

(* A field written without a star has no star flag. *)
LEMMA NoStar ==
  ASSUME NEW g, NEW i \in 1..3, g.fields[i][1].form # "all",
         Numeric(g) \/ \E w : ByNickname(g, w)
  PROVE  Fields[i].star \notin flags
<1>1. CASE Numeric(g)
  <2>1. flags \subseteq {"DONT_LOG"} \cup
          {Fields[k].star : k \in {j \in 1..5 : g.fields[j][1].form = "all"}}
    BY <1>1 DEF Numeric, Starred
  <2>2. ASSUME NEW k \in 1..5, g.fields[k][1].form = "all" PROVE Fields[i].star # Fields[k].star
    <3>1. i # k
      BY <2>2
    <3>2. i \in 1..5
      OBVIOUS
    <3> QED
      BY <3>1, <3>2, StarsDiffer
  <2>3. Fields[i].star # "DONT_LOG"
    <3>1. i \in 1..5
      OBVIOUS
    <3> QED
      BY <3>1, StarsDiffer
  <2> QED
    BY <2>1, <2>2, <2>3
<1>2. ASSUME NEW w, ByNickname(g, w) PROVE Fields[i].star \notin flags
  <2>1. w \in TimeWords /\ g.fields = StandsFor(w) /\ flags \subseteq {"DONT_LOG"} \cup Nickname(w).flags
    BY <1>2 DEF ByNickname, Nicknamed
  <2>2. Fields[1].star = "MIN_STAR" /\ Fields[2].star = "HR_STAR" /\ Fields[3].star = "DOM_STAR"
    BY DEF Fields, FieldSpec
  <2>3. w # "hourly" => Nickname(w).flags \subseteq {"DOW_STAR"}
    BY <2>1 DEF Nickname, TimeWords, NicknameWords
  <2>4. w = "hourly" => Nickname(w).flags = {"HR_STAR"} /\ i # 2
    <3>1. ASSUME w = "hourly" PROVE Nickname(w).flags = {"HR_STAR"}
      BY <3>1 DEF Nickname
    <3>2. ASSUME w = "hourly", i = 2 PROVE FALSE
      <4>1. g.fields[i] = Each
        BY <2>1, <3>2, StandsForIs DEF Wide
      <4> QED
        BY <4>1 DEF Each, Everything, ListItem
    <3> QED
      BY <3>1, <3>2
  <2> QED
    BY <2>1, <2>2, <2>3, <2>4
<1> QED
  BY <1>1, <1>2

(* What printTime sees of a field that is written without a star are the   *)
(* values that are written.                                                *)
LEMMA SeenShown ==
  ASSUME NEW g, NEW i \in 1..4, NEW b \in Seen(mem, i),
         \/ Numeric(g)
         \/ \E w : ByNickname(g, w) /\ i \notin Wide(w)
  PROVE  b + Fields[i].low \in Shown(mem, i)
<1>1. CASE Numeric(g)
  BY <1>1, SeenOfBits DEF Numeric
<1>2. ASSUME NEW w, ByNickname(g, w), i \notin Wide(w) PROVE b + Fields[i].low \in Shown(mem, i)
  <2>1. mem = Sundays(NickBits(Wide(w)))
    BY <1>2 DEF ByNickname
  <2>2. b = 0
    BY <1>2, <2>1, SeenOfNickname
  <2>3. PICK n, l, h : n = Fields[i].name /\ l = Fields[i].low /\ h = Fields[i].high
    OBVIOUS
  <2>4. n \in Nat /\ l \in Nat /\ h \in Nat /\ h - l + 1 \in Nat \ {0} /\ FirstBit(i) = 8 * n
    BY <2>3, FieldPlaces, FieldsAre DEF FirstBit, Count
  <2>5. FirstBit(i) + b \in mem
    BY SeenIs
  <2>6. Address(n, 0) \in mem
    BY <2>2, <2>4, <2>5, AddressIs
  <2>7. b + l = l /\ l \in l..h /\ l - l = 0
    BY <2>2, <2>4
  <2> QED
    BY <2>3, <2>6, <2>7 DEF Shown
<1> QED
  BY <1>1, <1>2

LEMMA SeenWritten ==
  ASSUME NEW g, NEW i \in 1..3, g.fields[i][1].form # "all", Joined(g),
         Numeric(g) \/ \E w : ByNickname(g, w)
  PROVE  \A b \in Seen(mem, i) : b + Fields[i].low \in Meaning(Fields[i], g.fields[i])
<1>1. ASSUME NEW w, ByNickname(g, w) PROVE i \notin Wide(w)
  <2>1. w \in TimeWords /\ g.fields = StandsFor(w)
    BY <1>1 DEF ByNickname, Nicknamed
  <2>2. ASSUME i \in Wide(w) PROVE FALSE
    <3>1. g.fields[i] = Each
      BY <2>1, <2>2, StandsForIs
    <3> QED
      BY <3>1 DEF Each, Everything, ListItem
  <2> QED
    BY <2>2
<1>2. \A b \in Seen(mem, i) : b + Fields[i].low \in Shown(mem, i)
  BY <1>1, SeenShown
<1>3. Fields[i].name # dow
  <2>1. PICK n, c, d : n = Fields[i].name /\ c = Count(i) /\ d = Fields[5].name
    OBVIOUS
  <2>2. n \in Nat /\ c \in Nat \ {0} /\ d \in Nat /\ d = dow
    BY <2>1, FieldPlaces, FieldNames
  <2>3. 8 * n + c <= 8 * d
    <3>1. i \in 1..5 /\ i < 5
      OBVIOUS
    <3> QED
      BY <2>1, <3>1, FieldsAscend DEF FirstBit
  <2> QED
    BY <2>1, <2>2, <2>3
<1>4. Shown(mem, i) = Meaning(Fields[i], g.fields[i])
  BY <1>3 DEF Joined, BothSundays
<1> QED
  BY <1>2, <1>4

(***************************************************************************)
(* A search that gives up was for "@monthly": a line of five fields, or    *)
(* "@yearly", has no bit behind the last month, and the other nicknames    *)
(* leave each scan something to find.                                      *)
(***************************************************************************)
LEMMA GaveUpMonthly ==
  ASSUME LoadInv, ret = "entry", SearchOK, e = EntryView(mem, flags), outcome = "gaveUp",
         NEW g, g = file, WellFormed(g)
  PROVE  AtMonthly(g)
<1>1. /\ ~SettingFirst(g) /\ Joined(g)
      /\ Numeric(g) \/ \E w : ByNickname(g, w)
  BY EntrySays
<1>2. /\ e.minute = Seen(mem, 1) /\ e.hour = Seen(mem, 2)
      /\ e.dom = Seen(mem, 3) /\ e.month = Seen(mem, 4)
  BY ViewSeen
<1>3. /\ LAST_MONTH \in Nat \ {0} /\ LAST_DOM \in Nat \ {0} /\ LAST_HOUR \in Nat /\ LAST_MINUTE \in Nat
      /\ Fields[4].low = 1 /\ Fields[4].high = LAST_MONTH
  BY FieldBounds DEF Fields, FieldSpec, FIRST_MONTH, FIRST_DOM
<1>4. LAST_MONTH \in Seen(mem, 4)
  <2>1. PT!MONTH_COUNT \in e.month
    BY DEF SearchOK, PT!GiveUpInv, PT!GivesUpBehindYear
  <2>2. PT!MONTH_COUNT = LAST_MONTH
    BY <1>3 DEF PT!MONTH_COUNT, PT!FIRST_MONTH
  <2> QED
    BY <1>2, <2>1, <2>2
<1>5. LAST_MONTH + Fields[4].low \notin Shown(mem, 4)
  BY <1>3 DEF Shown
<1>6. ~ Numeric(g)
  BY <1>4, <1>5, SeenShown
<1>7. PICK w : ByNickname(g, w)
  BY <1>1, <1>6
<1>8. 4 \in Wide(w)
  BY <1>4, <1>5, <1>7, SeenShown
<1>9. w \in TimeWords /\ Nicknamed(g, w) /\ mem = Sundays(NickBits(Wide(w)))
  BY <1>7 DEF ByNickname
<1>10. 3 \notin Wide(w)
  <2> SUFFICES ASSUME 3 \in Wide(w) PROVE FALSE
    OBVIOUS
  <2>1. 1 \in e.month /\ 1 \in e.dom /\ 0 \in e.hour /\ 0 \in e.minute
    BY <1>2, <1>8, <1>9, SeenFirst
  <2>2. /\ 1 \in PT!Hits(e.month, PT!FIRST_MONTH, LAST_MONTH)
        /\ 1 \in PT!Hits(e.dom, PT!FIRST_DOM, LAST_DOM)
        /\ 0 \in PT!Hits(e.hour, PT!FIRST_HOUR, LAST_HOUR)
        /\ 0 \in PT!Hits(e.minute, PT!FIRST_MINUTE, LAST_MINUTE)
    BY <1>3, <2>1 DEF PT!Hits, PT!FIRST_MONTH, PT!FIRST_DOM, PT!FIRST_HOUR, PT!FIRST_MINUTE
  <2>3. PT!Schedulable
    BY <2>2 DEF PT!Schedulable
  <2> QED
    BY <2>3 DEF SearchOK, PT!YearInv
<1>11. w = "monthly"
  BY <1>8, <1>9, <1>10 DEF Wide, TimeWords, NicknameWords
<1> QED
  BY <1>9, <1>11 DEF AtMonthly, Nicknamed

-----------------------------------------------------------------------------
(***************************************************************************)
(* The files.  What load_entry reads, and printTime searches for, is the   *)
(* file that the program is at: nothing changes between two looks at it.   *)
(***************************************************************************)
Contents == \A n \in Present : dir.files[n] \in Files \cup {Special}

Loading ==
  /\ at = "open" /\ name \in Present => dir.files[name] \in Files
  /\ at \in {"parse", "search"} => LoadInv /\ name \in Present /\ file = dir.files[name]
  /\ at = "search" => ret = "entry"

LEMMA LoadingInit == ScanInit => Contents /\ Loading
<1> SUFFICES ASSUME ScanInit PROVE Contents /\ Loading
  OBVIOUS
<1>1. at = "exists" /\ dir \in Directories
  BY DEF ScanInit
<1>2. Contents
  BY <1>1, ScanInputs, EmptyDir DEF Contents, Present
<1> QED
  BY <1>1, <1>2 DEF Loading

LEMMA LoadingNext ==
  ASSUME Contents, Loading, [ScanNext]_svars
  PROVE  Contents' /\ Loading'
<1>1. ASSUME Program PROVE dir' = dir /\ Present' = Present /\ Contents'
  BY <1>1, ProgramKeepsDir DEF world, Present, Contents
<1>2. CASE Exists \/ OpenDir \/ NextName \/ EndOfDir \/ Loaded \/ Crash \/ Searched
  <2>1. at' \notin {"open", "parse", "search"}
    BY <1>2 DEF Exists, OpenDir, NextName, EndOfDir, Loaded, Crash, Searched, Reported, Continue, End
  <2> QED
    BY <1>1, <1>2, <2>1 DEF Program, Loading
<1>3. CASE Status
  <2>1. at' = "open" => name \in Present /\ dir.files[name] # Special
    BY <1>3 DEF Status, Reported, Continue
  <2>2. at' \in {"open", "next"} /\ name' = name
    BY <1>3 DEF Status, Reported, Continue
  <2>3. dir' = dir /\ Present' = Present /\ Contents'
    BY <1>1, <1>3 DEF Program
  <2> QED
    BY <2>1, <2>2, <2>3 DEF Loading, Contents
<1>4. CASE Open
  <2>1. dir' = dir /\ Present' = Present /\ Contents' /\ name' = name /\ at = "open"
    BY <1>1, <1>4 DEF Program, Open
  <2>2. \/ at' = "next"
        \/ at' = "parse" /\ name \in Present /\ Ready(dir.files[name])
    BY <1>4 DEF Open, Reported, Continue
  <2>3. CASE at' = "parse" /\ name \in Present /\ Ready(dir.files[name])
    <3>1. dir.files[name] \in Files
      BY <2>1, <2>3 DEF Loading
    <3>2. Init' /\ file' = dir.files[name]
      BY <2>3, <3>1 DEF Ready, Init
    <3>3. LoadInv'
      BY <3>2, LoadInvInit, PTL
    <3> QED
      BY <2>1, <2>3, <3>2, <3>3 DEF Loading
  <2> QED
    BY <2>1, <2>2, <2>3 DEF Loading
<1>5. CASE Parse
  <2>1. at = "parse" /\ at' = at /\ name' = name /\ Next
    BY <1>5 DEF Parse, scan
  <2>2. LoadInv' /\ file' = file
    BY <2>1, LoadInvNext, FileStays DEF Loading
  <2> QED
    BY <1>1, <1>5, <2>1, <2>2 DEF Program, Loading
<1>6. CASE PrintTime \/ SearchStep
  <2>1. at \in {"parse", "search"} /\ at' = "search" /\ name' = name /\ UNCHANGED vars
    BY <1>6 DEF PrintTime, SearchStep, scan, Continue
  <2>2. ret = "entry" /\ ret' = ret /\ file' = file
    BY <1>6, <2>1 DEF PrintTime, SearchStep, Loading, vars
  <2>3. LoadInv'
    BY <2>1, LoadInvNext DEF Loading
  <2> QED
    BY <1>1, <1>6, <2>1, <2>2, <2>3 DEF Program, Loading
<1>7. ASSUME NEW n, Remove(n) PROVE Contents' /\ Loading'
  <2>1. Present' = Present \ {n} /\ \A m \in Present \ {n} : dir'.files[m] = dir.files[m]
    BY <1>7, PresentRemoved DEF Remove, Dir
  <2>2. at' = at /\ at \notin {"parse", "search"} /\ name' = name
    BY <1>7 DEF Remove, MayChange
  <2> QED
    BY <2>1, <2>2 DEF Contents, Loading
<1>8. ASSUME NEW n, NEW f \in Arrivals, Install(n, f) PROVE Contents' /\ Loading'
  <2>1. /\ Present' = Present \cup {n}
        /\ \A m \in Present \cup {n} : dir'.files[m] = IF m = n THEN f ELSE dir.files[m]
    BY <1>8, PresentInstalled DEF Install, Dir
  <2>2. at' = at /\ at \notin {"parse", "search"} /\ name' = name
    BY <1>8 DEF Install, MayChange
  <2>3. f \in Files
    BY ScanInputs
  <2> QED
    BY <2>1, <2>2, <2>3 DEF Contents, Loading
<1>9. CASE RemoveDir
  <2>1. Present' = {} /\ at' = at /\ at \notin {"parse", "search"}
    BY <1>9, PresentGone DEF RemoveDir, MayChange, scan
  <2> QED
    BY <2>1 DEF Contents, Loading
<1>10. CASE UNCHANGED svars
  <2>1. UNCHANGED <<dir, at, name, ret, file>> /\ UNCHANGED vars
    BY <1>10 DEF svars, scan, world, vars
  <2>2. at \in {"parse", "search"} => LoadInv'
    BY <2>1, LoadInvNext DEF Loading
  <2> QED
    BY <2>1, <2>2 DEF Contents, Loading, Present
<1> QED
  BY <1>2, <1>3, <1>4, <1>5, <1>6, <1>7, <1>8, <1>9, <1>10 DEF ScanNext, Program, Change

-----------------------------------------------------------------------------
(***************************************************************************)
(* The fate of a job that stayed where it was.                             *)
(***************************************************************************)
Job(f) == HasJob(f) /\ ~SettingFirst(f)

FateOfJob(what, f) ==
  \/ what \in {"announced"} \cup SystemDenied
  \/ what = "no_time" /\ AtMonthly(f)

Served ==
  /\ at \in Before => \A n \in Names : report[n] = "unseen"
  /\ \A n \in steady :
       Job(dir.files[n]) => report[n] = "unseen" \/ FateOfJob(report[n], dir.files[n])

LEMMA ServedInit == ScanInit => Served
<1> SUFFICES ASSUME ScanInit PROVE Served
  OBVIOUS
<1>1. at = "exists" /\ steady = {} /\ report = [n \in Names |-> "unseen"]
  BY DEF ScanInit
<1> QED
  BY <1>1 DEF Served

LEMMA ServedSame ==
  ASSUME Served, dir' = dir, report' = report, steady' = steady,
         at' \in Before => at \in Before
  PROVE  Served'
BY DEF Served

LEMMA ServedReport ==
  ASSUME WalkTypes, Served, dir' = dir, steady' = steady, at' \notin Before,
         NEW what, report' = [report EXCEPT ![name] = what],
         name \in steady /\ Job(dir.files[name]) => FateOfJob(what, dir.files[name])
  PROVE  Served'
<1>1. steady \subseteq Names /\ report \in [Names -> Fates]
  BY DEF WalkTypes
<1>2. ASSUME NEW n \in steady, Job(dir.files[n])
      PROVE  report'[n] = "unseen" \/ FateOfJob(report'[n], dir.files[n])
  <2>1. CASE n = name
    BY <1>1, <1>2, <2>1
  <2>2. CASE n # name
    BY <1>1, <1>2, <2>2 DEF Served
  <2> QED
    BY <2>1, <2>2
<1> QED
  BY <1>2 DEF Served

LEMMA ServedNext ==
  ASSUME WalkTypes, Contents, Loading, Searching, Served, [ScanNext]_svars
  PROVE  Served'
<1>1. ASSUME Program PROVE dir' = dir
  BY <1>1, ProgramKeepsDir DEF world
<1>2. steady \subseteq Present
  BY DEF WalkTypes
<1>3. CASE Exists \/ NextName \/ EndOfDir \/ Parse \/ Crash \/ PrintTime \/ SearchStep
  <2>1. dir' = dir
    BY <1>1, <1>3 DEF Program
  <2>2. report' = report /\ steady' = steady /\ (at' \in Before => at \in Before)
    BY <1>3 DEF Exists, NextName, EndOfDir, Parse, Crash, PrintTime, SearchStep, Continue, End,
       scan, Before
  <2> QED
    BY <2>1, <2>2, ServedSame
<1>4. CASE OpenDir
  <2>1. dir' = dir /\ report' = report /\ at \in Before /\ at' \notin Before
    BY <1>1, <1>4 DEF Program, OpenDir, Continue, End, Before
  <2>2. steady' \subseteq Names
    BY <1>2, <1>4 DEF OpenDir, WalkTypes
  <2> QED
    BY <2>1, <2>2 DEF Served
<1>5. CASE Status
  <2>1. dir' = dir /\ steady' = steady /\ at' \notin Before
    BY <1>1, <1>5 DEF Program, Status, Continue, Reported, Before
  <2>2. CASE name \in Present /\ dir.files[name] # Special
    BY <1>5, <2>1, <2>2, ServedSame DEF Status
  <2>3. CASE ~ (name \in Present /\ dir.files[name] # Special)
    <3>1. report' = [report EXCEPT ![name] = "skipped"]
      BY <1>5, <2>3 DEF Status, Reported
    <3>2. ~ (name \in steady /\ Job(dir.files[name]))
      BY <1>2, <2>3 DEF Job, HasJob
    <3> QED
      BY <2>1, <3>1, <3>2, ServedReport
  <2> QED
    BY <2>2, <2>3
<1>6. CASE Open
  <2>1. dir' = dir /\ steady' = steady /\ at' \notin Before
    BY <1>1, <1>6 DEF Program, Open, Continue, Reported, Before
  <2>2. \/ report' = report
        \/ \E what \in {"gone"} \cup SystemDenied :
             /\ report' = [report EXCEPT ![name] = what]
             /\ what = "gone" => name \notin Present
    BY <1>6 DEF Open, Reported, Continue, SystemDenied
  <2>3. CASE report' = report
    BY <2>1, <2>3, ServedSame
  <2>4. ASSUME NEW what \in {"gone"} \cup SystemDenied, report' = [report EXCEPT ![name] = what],
               what = "gone" => name \notin Present
        PROVE  Served'
    <3>1. name \in steady /\ Job(dir.files[name]) => FateOfJob(what, dir.files[name])
      BY <1>2, <2>4 DEF FateOfJob
    <3> QED
      BY <2>1, <2>4, <3>1, ServedReport
  <2> QED
    BY <2>2, <2>3, <2>4
<1>7. CASE Loaded
  <2>1. dir' = dir /\ steady' = steady /\ at' \notin Before
    BY <1>1, <1>7 DEF Program, Loaded, Continue, Reported, Before
  <2>2. PICK what : /\ what = (IF ecode = "e_memory" THEN "no_memory"
                                ELSE IF lookup = "failed" THEN "no_user" ELSE "refused")
                    /\ report' = [report EXCEPT ![name] = what]
    BY <1>7 DEF Loaded, Reported
  <2>3. LoadInv /\ file = dir.files[name] /\ ret = "NULL"
    BY <1>7 DEF Loaded, Loading
  <2>4. ASSUME Job(dir.files[name]) PROVE what \in SystemDenied
    <3>1. WellFormed(file) /\ ~SettingFirst(file)
      BY <2>3, <2>4 DEF Job, HasJob
    <3>2. Tells(file)
      BY <2>3, <3>1 DEF LoadInv, Follows
    <3>3. Lacking
      BY <2>3, <3>2 DEF Tells
    <3> QED
      BY <2>2, <3>3 DEF Lacking, SystemDenied
  <2> QED
    BY <2>1, <2>2, <2>4, ServedReport DEF FateOfJob
<1>8. CASE Searched
  <2>1. dir' = dir /\ steady' = steady /\ at' \notin Before
    BY <1>1, <1>8 DEF Program, Searched, Continue, Reported, End, Before
  <2>2. \/ report' = report
        \/ /\ outcome # "threw"
           /\ report' = [report EXCEPT ![name] = IF outcome = "printed" THEN "announced" ELSE "no_time"]
    BY <1>8 DEF Searched, Reported
  <2>3. CASE report' = report
    BY <2>1, <2>3, ServedSame
  <2>4. ASSUME outcome # "threw",
               report' = [report EXCEPT ![name] = IF outcome = "printed" THEN "announced" ELSE "no_time"]
        PROVE  Served'
    <3>1. PICK what : what = IF outcome = "printed" THEN "announced" ELSE "no_time"
      OBVIOUS
    <3>2. /\ LoadInv /\ file = dir.files[name] /\ ret = "entry" /\ SearchOK
          /\ e = EntryView(mem, flags) /\ outcome # "none"
      BY <1>8 DEF Searched, Loading, Searching
    <3>3. outcome \in {"printed", "gaveUp"}
      BY <2>4, <3>2 DEF SearchOK, PT!TypeOK
    <3>4. ASSUME Job(dir.files[name]) PROVE FateOfJob(what, dir.files[name])
      <4>1. WellFormed(file)
        BY <3>2, <3>4 DEF Job, HasJob
      <4>2. CASE outcome = "printed"
        BY <3>1, <4>2 DEF FateOfJob
      <4>3. CASE outcome = "gaveUp"
        <5>1. AtMonthly(file)
          BY <3>2, <4>1, <4>3, GaveUpMonthly
        <5> QED
          BY <3>1, <3>2, <4>3, <5>1 DEF FateOfJob
      <4> QED
        BY <3>3, <4>2, <4>3
    <3> QED
      BY <2>1, <2>4, <3>1, <3>4, ServedReport
  <2> QED
    BY <2>2, <2>3, <2>4
<1>9. ASSUME NEW n, Remove(n) PROVE Served'
  <2>1. /\ \A m \in Present \ {n} : dir'.files[m] = dir.files[m]
        /\ steady' = steady \ {n} /\ report' = report /\ at' = at
    BY <1>9 DEF Remove, Dir
  <2>2. \A m \in steady' : m \in steady /\ dir'.files[m] = dir.files[m]
    BY <1>2, <2>1
  <2> QED
    BY <2>1, <2>2 DEF Served
<1>10. ASSUME NEW n, NEW f, Install(n, f) PROVE Served'
  <2>1. /\ \A m \in Present \cup {n} : dir'.files[m] = IF m = n THEN f ELSE dir.files[m]
        /\ steady' = steady \ {n} /\ report' = report /\ at' = at
    BY <1>10 DEF Install, Dir
  <2>2. \A m \in steady' : m \in steady /\ dir'.files[m] = dir.files[m]
    BY <1>2, <2>1
  <2> QED
    BY <2>1, <2>2 DEF Served
<1>11. CASE RemoveDir
  <2>1. Present = {} /\ steady' = steady /\ report' = report /\ at' = at
    BY <1>11, PresentGone DEF RemoveDir, scan
  <2> QED
    BY <1>2, <2>1 DEF Served
<1>12. CASE UNCHANGED svars
  BY <1>12, ServedSame DEF svars, scan, world
<1> QED
  BY <1>3, <1>4, <1>5, <1>6, <1>7, <1>8, <1>9, <1>10, <1>11, <1>12 DEF ScanNext, Program, Change

-----------------------------------------------------------------------------
ScanInv ==
  /\ ScanTypeOK /\ Walk /\ Counting /\ FlagsOK /\ Searching
  /\ Contents /\ Loading /\ Served

LEMMA ScanInvariant == ScanSpec => []ScanInv
<1>1. ScanInit => ScanInv
  BY ScanInitOK, LoadingInit, ServedInit DEF ScanInv
<1>2. ScanInv /\ [ScanNext]_svars => ScanInv'
  <2> SUFFICES ASSUME ScanInv, [ScanNext]_svars PROVE ScanInv'
    OBVIOUS
  <2>1. WalkTypes
    BY TypeParts DEF ScanInv
  <2>2. WalkTypes' /\ Walk'
    BY <2>1, WalkNext DEF ScanInv
  <2>3. Counting'
    BY <2>1, CountingNext DEF ScanInv
  <2>4. FlagsOK' /\ Searching'
    BY SearchingNext DEF ScanInv
  <2>5. SearchTypes'
    BY SearchTypesNext DEF ScanInv
  <2>6. ScanTypeOK'
    BY <2>2, <2>5, TypeParts, PTL
  <2>7. Contents' /\ Loading'
    BY LoadingNext DEF ScanInv
  <2>8. Served'
    BY <2>1, ServedNext DEF ScanInv
  <2> QED
    BY <2>2, <2>3, <2>4, <2>6, <2>7, <2>8 DEF ScanInv
<1> QED
  BY <1>1, <1>2, PTL DEF ScanSpec

(* Type correctness of the program for every directory, every limit of     *)
(* descriptors and every change by others: among others, it never uses     *)
(* more descriptors than it may, and printTime always has a clock and the  *)
(* entry that load_entry filled.                                           *)
THEOREM ScanTypeCorrect == ScanSpec => []ScanTypeOK
<1>1. ScanInv => ScanTypeOK
  BY DEF ScanInv
<1> QED
  BY <1>1, ScanInvariant, PTL

(* Whatever others do to the directory, a walk that comes to its end has   *)
(* looked at every name that stayed there; and if nobody changed anything, *)
(* a name found no descriptor only because as many files as the process    *)
(* may have descriptors were opened and not closed.                        *)
THEOREM MissesNothing == ScanSpec => []NothingMissed
<1>1. ScanInv => NothingMissed
  <2> SUFFICES ASSUME ScanInv, end = "returned", NEW n \in steady
               PROVE  /\ report[n] # "unseen"
                      /\ report[n] = "no_fd" /\ changes = 0 =>
                           Cardinality(Opened) >= MAX_FD - OwnFds
    BY DEF NothingMissed
  <2>1. n \in Names /\ report[n] # "unseen"
    BY DEF ScanInv, Walk, Looked
  <2>2. ASSUME report[n] = "no_fd", changes = 0
        PROVE  Cardinality(Opened) >= MAX_FD - OwnFds
    BY <2>1, <2>2 DEF ScanInv, Counting, Undisturbed
  <2> QED
    BY <2>1, <2>2
<1> QED
  BY <1>1, ScanInvariant, PTL

(* For every file, directory and clock: the minute, the hour and the day   *)
(* that the program prints are selected by the entry that load_entry left  *)
(* in memory, and the time does not lie before the clock.                  *)
THEOREM AnnouncesStored == ScanSpec => []AnnouncesEntry
<1>1. ScanInv => AnnouncesEntry
  <2> SUFFICES ASSUME ScanInv, outcome = "printed"
               PROVE  /\ "MIN_STAR" \in flags \/ bit_test(mem, minute, then.min)
                      /\ "HR_STAR" \in flags \/ bit_test(mem, hour, then.hour)
                      /\ "DOM_STAR" \in flags \/ bit_test(mem, dom, then.mday - 1)
                      /\ Search!NotBefore(then, start)
    BY DEF AnnouncesEntry
  <2>1. at = "search"
    BY DEF ScanInv, ScanTypeOK
  <2>2. PT!TypeOK /\ PT!SearchInv /\ e = EntryView(mem, flags)
    BY <2>1 DEF ScanInv, Searching, SearchOK
  <2>3. PT!PrintedSelected /\ PT!NotInPast
    BY <2>2, PT!SettledSelected, PT!SettledAhead, SearchInputs
  <2>4. /\ "MIN_STAR" \in flags \/ bit_test(mem, minute, then.min)
        /\ "HR_STAR" \in flags \/ bit_test(mem, hour, then.hour)
        /\ "DOM_STAR" \in flags \/ bit_test(mem, dom, then.mday - 1)
    BY <2>2, <2>3 DEF PT!PrintedSelected, PT!Printed, PT!Selected, EntryView, FieldBits
  <2>5. Search!NotBefore(then, start)
    BY <2>3 DEF PT!NotInPast, PT!Printed, PT!NotBefore, PT!NotEarlierInYear,
       Search!NotBefore, Search!NotEarlierInYear
  <2> QED
    BY <2>4, <2>5
<1> QED
  BY <1>1, ScanInvariant, PTL

(* For every file that holds a line of crontab(5), every list of ranges in *)
(* it and every clock: the minute, the hour and the day that the program   *)
(* prints are among those written in the line, unless written with a star. *)
(* The parser's part is LoadInv: the fields hold what the line says.  The  *)
(* rest is that printTime, which looks at whole bytes, sees no stray bit   *)
(* in a field that is written without a star.                              *)
THEOREM AnnouncesWritten == ScanSpec => []AnnouncesLine
<1>1. ScanInv => AnnouncesLine
  <2> SUFFICES ASSUME ScanInv, outcome = "printed", WellFormed(file)
               PROVE  /\ Restricted(1) => then.min \in Meaning(Fields[1], file.fields[1])
                      /\ Restricted(2) => then.hour \in Meaning(Fields[2], file.fields[2])
                      /\ Restricted(3) => then.mday \in Meaning(Fields[3], file.fields[3])
    BY DEF AnnouncesLine
  <2>1. at = "search"
    BY DEF ScanInv, ScanTypeOK
  <2>2. LoadInv /\ ret = "entry" /\ SearchOK /\ e = EntryView(mem, flags)
    BY <2>1 DEF ScanInv, Loading, Searching
  <2>3. Joined(file) /\ (Numeric(file) \/ \E w : ByNickname(file, w))
    BY <2>2, EntrySays
  <2>4. ASSUME NEW i \in 1..3, Restricted(i)
        PROVE  /\ Fields[i].star \notin flags
               /\ \A b \in Seen(mem, i) : b + Fields[i].low \in Meaning(Fields[i], file.fields[i])
    <3>1. file.fields[i][1].form # "all"
      BY <2>4 DEF Restricted
    <3> QED
      BY <2>3, <3>1, NoStar, SeenWritten
  <2>5. /\ "MIN_STAR" \in flags \/ then.min \in Seen(mem, 1)
        /\ "HR_STAR" \in flags \/ then.hour \in Seen(mem, 2)
        /\ "DOM_STAR" \in flags \/ then.mday - 1 \in Seen(mem, 3)
    <3>1. PT!PrintedSelected
      BY <2>2, PT!SettledSelected, SearchInputs DEF SearchOK
    <3>2. /\ "MIN_STAR" \in e.flags \/ then.min \in e.minute
          /\ "HR_STAR" \in e.flags \/ then.hour \in e.hour
          /\ "DOM_STAR" \in e.flags \/ then.mday - 1 \in e.dom
      BY <3>1 DEF PT!PrintedSelected, PT!Printed, PT!Selected
    <3> QED
      BY <2>2, <3>2, ViewSeen
  <2>6. /\ Fields[1].star = "MIN_STAR" /\ Fields[2].star = "HR_STAR" /\ Fields[3].star = "DOM_STAR"
        /\ Fields[1].low = 0 /\ Fields[2].low = 0 /\ Fields[3].low = 1
    BY DEF Fields, FieldSpec, FIRST_MINUTE, FIRST_HOUR, FIRST_DOM
  <2>7. then.min \in Nat /\ then.hour \in Nat /\ then.mday \in Nat
    BY <2>2 DEF SearchOK, PT!TypeOK, PT!Tm
  <2>8. then.min + 0 = then.min /\ then.hour + 0 = then.hour /\ (then.mday - 1) + 1 = then.mday
    BY <2>7
  <2>9. ASSUME Restricted(1) PROVE then.min \in Meaning(Fields[1], file.fields[1])
    BY <2>4, <2>5, <2>6, <2>8, <2>9
  <2>10. ASSUME Restricted(2) PROVE then.hour \in Meaning(Fields[2], file.fields[2])
    BY <2>4, <2>5, <2>6, <2>8, <2>10
  <2>11. ASSUME Restricted(3) PROVE then.mday \in Meaning(Fields[3], file.fields[3])
    BY <2>4, <2>5, <2>6, <2>8, <2>11
  <2> QED
    BY <2>9, <2>10, <2>11
<1> QED
  BY <1>1, ScanInvariant, PTL

(* Whatever else lies in the directory and whatever others do to it: a     *)
(* walk that comes to its end normally (not by an exception of printTime)  *)
(* has announced every job that stayed there as the first active line of   *)
(* its file, with two exceptions: the system denied it a descriptor, the   *)
(* file, a stream, memory or the answer of getpwnam; or the job is         *)
(* "@monthly", which the search may give up.  A job behind a setting is    *)
(* not meant: it is never read.                                            *)
THEOREM PassesOverNoJob == ScanSpec => []JobsAnnounced
<1>1. ScanInv => JobsAnnounced
  <2> SUFFICES ASSUME ScanInv, end = "returned", NEW n \in steady,
                      HasJob(dir.files[n]), ~SettingFirst(dir.files[n])
               PROVE  \/ report[n] \in {"announced"} \cup SystemDenied
                      \/ report[n] = "no_time" /\ AtMonthly(dir.files[n])
    BY DEF JobsAnnounced
  <2>1. report[n] # "unseen"
    BY DEF ScanInv, Walk, Looked
  <2>2. report[n] = "unseen" \/ FateOfJob(report[n], dir.files[n])
    BY DEF ScanInv, Served, Job
  <2> QED
    BY <2>1, <2>2 DEF FateOfJob
<1> QED
  BY <1>1, ScanInvariant, PTL
=============================================================================
