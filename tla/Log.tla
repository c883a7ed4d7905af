-------------------------------- MODULE Log --------------------------------
(***************************************************************************)
(* duan_src/log.{h,cc}: loggers, appenders and their locks, the manager,   *)
(* and the listener that rebuilds loggers when the "logs" variable changes.*)
(*                                                                         *)
(* A logger's m_mutex is held while all its appenders write, and while the *)
(* root logger writes for a logger that has none: those sections are       *)
(* several actions with an owner.  An appender's m_mutex is never held     *)
(* while another lock is taken: each of its sections is one action.  Locks *)
(* are released together with the last action under them.                  *)
(*                                                                         *)
(* Names are numbers, in the order of std::set<LogDefine>.  What a line    *)
(* says is LogFormatter's business: here it is its event and the second in *)
(* which FileLogAppender::log() began.                                     *)
(***************************************************************************)
EXTENDS Integers, FiniteSets, Sequences, SequencesExt, LogFormatter

CONSTANTS
    Writers, Users, Loaders,    \* threads that log, that call the other operations, that load
    Names, Root,                \* logger names
    Files,
    UserAppender,               \* the appender that users made
    UserFile,                   \* its file
    RootAppender,               \* the StdoutLogAppender of LoggerManager's constructor
    Objects,                    \* the appenders that the listener makes
    Patterns, DefaultPattern,
    UserPatterns,               \* the patterns that users set
    Docs,                       \* documents: sequences of nodes
    Sharing,                    \* users attach their appender "once", "again" after they took
                                \* it off, or "shared", to several loggers at a time
    Null,
    MaxClock, MaxEvents, MaxCalls, MaxLoads     \* bounds

Threads == Writers \cup Users \cup Loaders
Appenders == {UserAppender, RootAppender} \cup Objects

ASSUME NamesAssumption == Names \subseteq Nat /\ Root \in Names
ASSUME ThreadsAssumption == Null \notin Threads
ASSUME AppendersAssumption ==
    /\ Objects \subseteq Nat /\ Null \notin Appenders
    /\ UserAppender # RootAppender /\ {UserAppender, RootAppender} \cap Objects = {}
ASSUME PatternsAssumption ==
    {DefaultPattern} \cup UserPatterns \subseteq Patterns /\ Null \notin Patterns
ASSUME FilesAssumption == UserFile \in Files /\ Null \notin Files
ASSUME DocsAssumption ==
    \A doc \in Docs : \A i \in DOMAIN doc : i \in Nat /\ doc[i].name \in Names \cup {Null}
ASSUME SharingAssumption == Sharing \in {"once", "again", "shared"}
ASSUME BoundsAssumption == {MaxClock, MaxEvents, MaxCalls, MaxLoads} \subseteq Nat

UNKNOW == 0
DEBUG == 1
INFO == 2
FATAL == 5
Removed == 100      \* the level the listener gives to a logger that is no longer defined

VARIABLES
    clock,          \* time(0)
    known,          \* the names in LoggerManager::m_loggers
    mgr,            \* who holds LoggerManager::m_mutex
    logger,         \* m_level, m_formatter and m_appenders of each logger
    owner,          \* who holds its m_mutex
    appender,       \* m_hasFormatter, m_formatter, m_filename and m_lastTime
    file,           \* the lines in each file
    defines,        \* the value of g_log_defines: a definition per name
    at, job,        \* what each thread is doing
    load,           \* the load a thread is in
    events, calls, loads,   \* counted for the bounds
    owed, done,     \* history: the appenders of the current event, and those that wrote it
    attached,       \* history: the user's appender was attached before
    failure         \* a null pointer was used

objVars == <<known, mgr, logger, owner, appender, file>>
counters == <<events, calls, loads>>
history == <<owed, done, attached>>
vars == <<clock, objVars, defines, at, job, load, counters, history, failure>>

NoJob == [lg |-> Root, n |-> 0, ev |-> 0, now |-> 0, ap |-> Null, has |-> FALSE,
          p |-> Null, todo |-> {}]
NoAppender == [own |-> FALSE, formatter |-> Null, file |-> Null, lastTime |-> 0]
NoLoad == [old |-> << >>, new |-> << >>, cur |-> Root, n |-> 0, todo |-> {}, gone |-> {}]

-----------------------------------------------------------------------------
(* Documents                                                               *)

(* LexicalCast<std::string, LogDefine>.  The level is read when the node   *)
(* has a key "levle" (sic); an appender of no or an unknown type, and a    *)
(* file appender without a file, are passed over; an appender's level is   *)
(* never read.                                                             *)
ValidAppender(a) == a.type = "StdoutLogAppender" \/ (a.type = "FileLogAppender" /\ a.file # Null)
Define(node) ==
    [level |-> IF node.levle THEN node.level ELSE UNKNOW,
     formatter |-> node.formatter,
     appenders |-> SelectSeq(node.appenders, ValidAppender)]

(* A node without a name makes the conversion throw.                       *)
Converts(doc) == \A i \in DOMAIN doc : doc[i].name # Null

(* The std::set, which compares names: of two nodes with one name the      *)
(* first counts.                                                           *)
Definitions(doc) ==
    [l \in {doc[i].name : i \in DOMAIN doc} |->
        Define(doc[Min({i \in DOMAIN doc : doc[i].name = l})])]

-----------------------------------------------------------------------------
(* LoggerManager's constructor: the root logger and its appender, which    *)
(* takes root's formatter.                                                 *)
Init ==
    /\ clock = 1
    /\ known = {Root}
    /\ mgr = Null
    /\ logger = [l \in Names |-> [level |-> DEBUG, formatter |-> DefaultPattern,
                                  appenders |-> IF l = Root THEN <<RootAppender>> ELSE << >>]]
    /\ owner = [l \in Names |-> Null]
    /\ appender = [a \in Appenders |->
                    CASE a = RootAppender -> [NoAppender EXCEPT !.formatter = DefaultPattern]
                      [] a = UserAppender -> [NoAppender EXCEPT !.file = UserFile]
                      [] OTHER -> NoAppender]
    /\ file = [f \in Files |-> {}]
    /\ defines = << >>
    /\ at = [t \in Threads |-> "idle"]
    /\ job = [t \in Threads |-> NoJob]
    /\ load = [t \in Threads |-> NoLoad]
    /\ events = 0 /\ calls = 0 /\ loads = 0
    /\ owed = [t \in Threads |-> << >>]
    /\ done = [t \in Threads |-> << >>]
    /\ attached = FALSE
    /\ failure = FALSE

Tick ==
    /\ clock < MaxClock
    /\ clock' = clock + 1
    /\ UNCHANGED <<objVars, defines, at, job, load, counters, history, failure>>

Go(t, label) == at' = [at EXCEPT ![t] = label]
Free(l) == owner[l] = Null
List(t) == logger[job[t].lg].appenders

(* The operation ends, and all locks that it still holds are released; a   *)
(* thread in a load goes on with the listener.                             *)
Release(t) == owner' = [l \in Names |-> IF owner[l] = t THEN Null ELSE owner[l]]
Return(t, label) ==
    /\ Go(t, IF load[t] = NoLoad THEN "idle" ELSE label)
    /\ job' = [job EXCEPT ![t] = NoJob]

-----------------------------------------------------------------------------
(* Logging                                                                 *)

(* DUAN_LOG_LEVEL: the event is made when the level allows it.             *)
Event(t, l, id) == job' = [job EXCEPT ![t] = [NoJob EXCEPT !.lg = l, !.ev = id]]
LogBegin(t, l) ==
    /\ at[t] = "idle" /\ t \in Writers
    /\ l \in known /\ events < MaxEvents
    /\ logger[l].level <= INFO
    /\ events' = events + 1
    /\ Event(t, l, events + 1)
    /\ Go(t, "log")
    /\ UNCHANGED <<clock, objVars, defines, load, calls, loads, history, failure>>

(* ~LogEventWrap calls Logger::log(), which reads m_level again.           *)
LogLevel(t) ==
    /\ at[t] = "log"
    /\ \/ /\ logger[job[t].lg].level <= INFO
          /\ Go(t, "lock")
          /\ UNCHANGED <<owner, job>>
       \/ /\ logger[job[t].lg].level > INFO
          /\ Release(t) /\ Return(t, "conf")
    /\ UNCHANGED <<clock, known, mgr, logger, appender, file, defines, load, counters, history,
                   failure>>

(* m_root is set by getLogger(), and so not in the root logger.  Mutant:   *)
(* it is set there, too.                                                   *)
HasRoot_All(l) == TRUE
HasRoot(l) == l # Root

(* Under the lock: the own appenders, or those of the root logger, or none.*)
LogLock(t) ==
    LET l == job[t].lg IN
    /\ at[t] = "lock"
    /\ Free(l)
    /\ owed' = [owed EXCEPT ![t] = List(t)]
    /\ \/ /\ List(t) # << >>
          /\ owner' = [owner EXCEPT ![l] = t]
          /\ Go(t, "each")
          /\ UNCHANGED job
       \/ /\ List(t) = << >> /\ HasRoot(l)
          /\ owner' = [owner EXCEPT ![l] = t]
          /\ job' = [job EXCEPT ![t].lg = Root]
          /\ Go(t, "log")
       \/ /\ List(t) = << >> /\ ~HasRoot(l)
          /\ Release(t) /\ Return(t, "conf")
    /\ UNCHANGED <<clock, known, mgr, logger, appender, file, defines, load, counters, done,
                   attached, failure>>

Wrote(t) ==
    /\ done' = [done EXCEPT ![t] = Append(@, List(t)[job[t].n + 1])]
    /\ job' = [job EXCEPT ![t].n = @ + 1]

(* StdoutLogAppender::log().                                               *)
LogStdout(t) ==
    /\ at[t] = "each" /\ job[t].n < Len(List(t))
    /\ appender[List(t)[job[t].n + 1]].file = Null
    /\ Wrote(t)
    /\ UNCHANGED <<clock, objVars, defines, at, load, counters, owed, attached, failure>>

(* FileLogAppender::log() compares the time with m_lastTime, which no lock *)
(* of the appender protects.                                               *)
LogFile(t) ==
    LET a == List(t)[job[t].n + 1] IN
    /\ at[t] = "each" /\ job[t].n < Len(List(t))
    /\ appender[a].file # Null
    /\ job' = [job EXCEPT ![t].ap = a, ![t].now = clock]
    /\ Go(t, IF clock # appender[a].lastTime THEN "reopen" ELSE "write")
    /\ UNCHANGED <<clock, objVars, defines, load, counters, history, failure>>

(* Opening a file empties it.                                              *)
Opened(F) == [f \in Files |-> IF f \in F THEN {} ELSE file[f]]

(* reopen(), which ends its own section of the appender's lock ...         *)
LogReopen(t) ==
    /\ at[t] = "reopen"
    /\ file' = Opened({appender[job[t].ap].file})
    /\ Go(t, "stamp")
    /\ UNCHANGED <<clock, known, mgr, logger, owner, appender, defines, job, load, counters,
                   history, failure>>

(* ... and then m_lastTime = now, again without the lock.                  *)
LogStamp(t) ==
    /\ at[t] = "stamp"
    /\ appender' = [appender EXCEPT ![job[t].ap].lastTime = job[t].now]
    /\ Go(t, "write")
    /\ UNCHANGED <<clock, known, mgr, logger, owner, file, defines, job, load, counters, history,
                   failure>>

LogWrite(t) ==
    LET f == appender[job[t].ap].file IN
    /\ at[t] = "write"
    /\ file' = [file EXCEPT ![f] = @ \cup {<<job[t].ev, job[t].now>>}]
    /\ done' = [done EXCEPT ![t] = Append(@, job[t].ap)]
    /\ job' = [job EXCEPT ![t].n = @ + 1, ![t].ap = Null, ![t].now = 0]
    /\ Go(t, "each")
    /\ UNCHANGED <<clock, known, mgr, logger, owner, appender, defines, load, counters, owed,
                   attached, failure>>

LogEnd(t) ==
    /\ at[t] = "each" /\ job[t].n >= Len(List(t))
    /\ owed' = [owed EXCEPT ![t] = << >>]
    /\ done' = [done EXCEPT ![t] = << >>]
    /\ Release(t) /\ Return(t, "conf")
    /\ UNCHANGED <<clock, known, mgr, logger, appender, file, defines, load, counters,
                   attached, failure>>

LogStep(t) ==
    \/ LogLevel(t) \/ LogLock(t) \/ LogEnd(t)
    \/ LogStdout(t) \/ LogFile(t) \/ LogReopen(t) \/ LogStamp(t) \/ LogWrite(t)

-----------------------------------------------------------------------------
(* The operations of the other threads                                     *)

UserCall(t) ==
    /\ at[t] = "idle" /\ t \in Users
    /\ calls < MaxCalls
    /\ calls' = calls + 1

(* LoggerManager::getLogger() of a name that is new.                       *)
getLogger(l) ==
    /\ mgr = Null /\ l \notin known
    /\ known' = known \cup {l}
    /\ UNCHANGED <<logger, appender>>

Attached(a) == {l \in Names : a \in Range(logger[l].appenders)}
MayAttach(l) ==
    CASE Sharing = "once" -> ~attached
      [] Sharing = "again" -> Attached(UserAppender) = {}
      [] Sharing = "shared" -> l \notin Attached(UserAppender)

(* Logger::addAppender().  Under the logger's lock, getFormatter() and the *)
(* assignment are two sections of the appender's lock.                     *)
AddBegin(t, l) ==
    /\ UserCall(t)
    /\ l \in known /\ MayAttach(l)
    /\ \A u \in Threads : job[u].ap # UserAppender
    /\ attached' = TRUE
    /\ job' = [job EXCEPT ![t] = [NoJob EXCEPT !.lg = l, !.ap = UserAppender]]
    /\ Go(t, "addLock")
    /\ UNCHANGED <<clock, objVars, defines, load, events, loads, owed, done, failure>>

AddLock(t) ==
    /\ at[t] = "addLock"
    /\ Free(job[t].lg)
    /\ owner' = [owner EXCEPT ![job[t].lg] = t]
    /\ job' = [job EXCEPT ![t].has = appender[job[t].ap].formatter # Null]
    /\ Go(t, "add")
    /\ UNCHANGED <<clock, known, mgr, logger, appender, file, defines, load, counters, history,
                   failure>>

AddEnd(t) ==
    LET l == job[t].lg
        a == job[t].ap IN
    /\ at[t] = "add"
    /\ appender' = IF job[t].has THEN appender
                                 ELSE [appender EXCEPT ![a].formatter = logger[l].formatter]
    /\ logger' = [logger EXCEPT ![l].appenders = Append(@, a)]
    /\ Release(t) /\ Return(t, "confAdd")
    /\ UNCHANGED <<clock, known, mgr, file, defines, load, counters, history, failure>>

delAppender(l) ==
    /\ UserAppender \in Range(logger[l].appenders)
    /\ Free(l)
    /\ logger' = [logger EXCEPT ![l].appenders = RemoveFirst(@, UserAppender)]
    /\ UNCHANGED <<known, appender>>

(* The listener's appenders in l's list have no other owner than the list. *)
Destroyed(l) ==
    [a \in Appenders |-> IF a \in Objects \cap Range(logger[l].appenders) THEN NoAppender
                                                                         ELSE appender[a]]

(* Mutant: clearAppenders() leaves the list as it is.                      *)
Cleared_Keeps(l) == appender' = appender /\ logger' = logger
Cleared(l) == appender' = Destroyed(l) /\ logger' = [logger EXCEPT ![l].appenders = << >>]

(* Mutant: clearAppenders() does not take the lock.                        *)
MayClear_Any(l) == TRUE
MayClear(l) == Free(l)

clearAppenders(l) ==
    /\ l \in known /\ MayClear(l)
    /\ Cleared(l)
    /\ UNCHANGED known

SetLevel(l) ==
    /\ l \in known
    /\ logger' = [logger EXCEPT ![l].level = FATAL]
    /\ UNCHANGED <<known, appender>>

(* LogAppender::setFormatter() with a formatter that was made from p.      *)
AppenderSetFormatter(p) ==
    /\ appender' = [appender EXCEPT ![UserAppender].own = TRUE, ![UserAppender].formatter = p]
    /\ UNCHANGED <<known, logger>>

(* The operations that are one critical section.                           *)
UserSection(t) ==
    /\ UserCall(t)
    /\ \/ \E l \in Names : getLogger(l) \/ delAppender(l) \/ clearAppenders(l) \/ SetLevel(l)
       \/ \E p \in UserPatterns : AppenderSetFormatter(p)
    /\ UNCHANGED <<clock, mgr, owner, file, defines, at, job, load, events, loads, history,
                   failure>>

(* Logger::setFormatter(): an invalid pattern changes nothing.  The lock   *)
(* is held while the appenders are visited.                                *)
FmtBegin(t, l, p) ==
    /\ UserCall(t)
    /\ l \in known /\ ~isError(p)
    /\ job' = [job EXCEPT ![t] = [NoJob EXCEPT !.lg = l, !.p = p]]
    /\ Go(t, "fmtLock")
    /\ UNCHANGED <<clock, objVars, defines, load, events, loads, history, failure>>

FmtLock(t) ==
    LET l == job[t].lg IN
    /\ at[t] = "fmtLock"
    /\ Free(l)
    /\ owner' = [owner EXCEPT ![l] = t]
    /\ logger' = [logger EXCEPT ![l].formatter = job[t].p]
    /\ Go(t, "fmt")
    /\ UNCHANGED <<clock, known, mgr, appender, file, defines, job, load, counters, history,
                   failure>>

(* Mutant: no appender is given the new formatter.                         *)
Inherits_None(a) == FALSE
Inherits(a) == ~appender[a].own

FmtEach(t) ==
    /\ at[t] = "fmt" /\ job[t].n < Len(List(t))
    /\ LET a == List(t)[job[t].n + 1] IN
        appender' = IF ~Inherits(a) THEN appender
                    ELSE [appender EXCEPT ![a].formatter = logger[job[t].lg].formatter]
    /\ job' = [job EXCEPT ![t].n = @ + 1]
    /\ UNCHANGED <<clock, known, mgr, logger, owner, file, defines, at, load, counters,
                   history, failure>>

FmtEnd(t) ==
    /\ at[t] = "fmt" /\ job[t].n >= Len(List(t))
    /\ Release(t) /\ Return(t, "confClear")
    /\ UNCHANGED <<clock, known, mgr, logger, appender, file, defines, load, counters, history,
                   failure>>

(* LoggerManager::toYamlString(): the manager's lock is held while each    *)
(* logger's toYamlString() waits for the logger's.                         *)
DumpBegin(t) ==
    /\ UserCall(t)
    /\ mgr = Null
    /\ mgr' = t
    /\ job' = [job EXCEPT ![t].todo = known]
    /\ Go(t, "dump")
    /\ UNCHANGED <<clock, known, logger, owner, appender, file, defines, load, events, loads,
                   history, failure>>

DumpOne(t) ==
    /\ at[t] = "dump" /\ job[t].todo # {}
    /\ Free(Min(job[t].todo))
    /\ job' = [job EXCEPT ![t].todo = @ \ {Min(@)}]
    /\ UNCHANGED <<clock, objVars, defines, at, load, counters, history, failure>>

DumpEnd(t) ==
    /\ at[t] = "dump" /\ job[t].todo = {}
    /\ mgr' = Null
    /\ Go(t, "idle")
    /\ UNCHANGED <<clock, known, logger, owner, appender, file, defines, job, load, counters,
                   history, failure>>

UserBegin(t) ==
    \/ UserSection(t) \/ DumpBegin(t)
    \/ \E l \in Names : AddBegin(t, l) \/ \E p \in UserPatterns : FmtBegin(t, l, p)

UserContinue(t) ==
    AddLock(t) \/ AddEnd(t) \/ FmtLock(t) \/ FmtEach(t) \/ FmtEnd(t) \/ DumpOne(t) \/ DumpEnd(t)

-----------------------------------------------------------------------------
(* Loading a document: ConfigVar::setValue() and the listener              *)

(* setValue() announces under the read lock; several threads may do so at  *)
(* the same time.  The listener begins with a line to the root logger.     *)
LoadBegin(t, doc) ==
    LET new == Definitions(doc) IN
    /\ at[t] = "idle" /\ t \in Loaders
    /\ loads < MaxLoads
    /\ loads' = loads + 1
    /\ Converts(doc) /\ new # defines
    /\ load' = [load EXCEPT ![t] = [old |-> defines, new |-> new, cur |-> Root, n |-> 0,
                                    todo |-> DOMAIN new, gone |-> DOMAIN defines \ DOMAIN new]]
    /\ IF logger[Root].level <= INFO
       THEN Event(t, Root, MaxEvents + loads') /\ Go(t, "log")
       ELSE Go(t, "conf") /\ UNCHANGED job
    /\ UNCHANGED <<clock, objVars, defines, events, calls, history, failure>>

NextName(t) == Min(load[t].todo)
Def(t) == load[t].new[load[t].cur]

(* A name that was not defined before: the listener sets up a Logger that  *)
(* the manager never learns of; only the files it opens remain.            *)
ConfNew(t) ==
    /\ at[t] = "conf" /\ load[t].todo # {}
    /\ NextName(t) \notin DOMAIN load[t].old
    /\ LET apps == load[t].new[NextName(t)].appenders IN
        file' = Opened({apps[i].file : i \in DOMAIN apps})
    /\ load' = [load EXCEPT ![t].todo = @ \ {Min(@)}]
    /\ UNCHANGED <<clock, known, mgr, logger, owner, appender, defines, at, job, counters,
                   history, failure>>

(* A definition that is the same as before: logger is a null pointer.      *)
ConfSame(t) ==
    /\ at[t] = "conf" /\ load[t].todo # {}
    /\ NextName(t) \in DOMAIN load[t].old
    /\ load[t].old[NextName(t)] = load[t].new[NextName(t)]
    /\ failure' = TRUE
    /\ UNCHANGED <<clock, objVars, defines, at, job, load, counters, history>>

(* One that changed: DUAN_LOG_NAME, SetLevel(), and setFormatter() when    *)
(* there is a pattern and it is valid.                                     *)
ConfChanged(t) ==
    LET l == NextName(t)
        def == load[t].new[l] IN
    /\ at[t] = "conf" /\ load[t].todo # {}
    /\ l \in DOMAIN load[t].old /\ load[t].old[l] # def
    /\ mgr = Null
    /\ known' = known \cup {l}
    /\ logger' = [logger EXCEPT ![l].level = def.level]
    /\ load' = [load EXCEPT ![t].cur = l, ![t].n = 0]
    /\ IF def.formatter # Null /\ ~isError(def.formatter)
       THEN Go(t, "fmtLock") /\ job' = [job EXCEPT ![t].lg = l, ![t].p = def.formatter]
       ELSE Go(t, "confClear") /\ UNCHANGED job
    /\ UNCHANGED <<clock, mgr, owner, appender, file, defines, counters, history, failure>>

(* clearAppenders() of a logger that changed or is no longer defined.      *)
ConfClear(t) ==
    LET l == load[t].cur IN
    /\ at[t] \in {"confClear", "goneClear"}
    /\ Free(l)
    /\ Cleared(l)
    /\ Go(t, IF at[t] = "confClear" THEN "confAdd" ELSE "conf")
    /\ UNCHANGED <<clock, known, mgr, owner, file, defines, job, load, counters, history,
                   failure>>

Unused == {a \in Objects : Attached(a) = {} /\ \A t \in Threads : job[t].ap # a}

(* The next appender is made, given its level and, if that is valid, its   *)
(* formatter; addAppender() follows.                                       *)
ConfMake(t) ==
    LET spec == Def(t).appenders[load[t].n + 1]
        own == spec.formatter # Null /\ ~isError(spec.formatter)
        a == Min(Unused) IN
    /\ at[t] = "confAdd" /\ load[t].n < Len(Def(t).appenders)
    /\ Unused # {}
    /\ file' = Opened({spec.file})
    /\ appender' = [appender EXCEPT ![a] =
                        [own |-> own, formatter |-> IF own THEN spec.formatter ELSE Null,
                         file |-> spec.file, lastTime |-> 0]]
    /\ job' = [job EXCEPT ![t].lg = load[t].cur, ![t].ap = a]
    /\ load' = [load EXCEPT ![t].n = @ + 1]
    /\ Go(t, "addLock")
    /\ UNCHANGED <<clock, known, mgr, logger, owner, defines, counters, history, failure>>

ConfDone(t) ==
    /\ at[t] = "confAdd" /\ load[t].n = Len(Def(t).appenders)
    /\ load' = [load EXCEPT ![t].todo = @ \ {load[t].cur}]
    /\ Go(t, "conf")
    /\ UNCHANGED <<clock, objVars, defines, job, counters, history, failure>>

(* A name that is no longer defined.                                       *)
ConfGone(t) ==
    LET l == Min(load[t].gone) IN
    /\ at[t] = "conf" /\ load[t].todo = {} /\ load[t].gone # {}
    /\ mgr = Null
    /\ known' = known \cup {l}
    /\ logger' = [logger EXCEPT ![l].level = Removed]
    /\ load' = [load EXCEPT ![t].cur = l, ![t].gone = @ \ {l}]
    /\ Go(t, "goneClear")
    /\ UNCHANGED <<clock, mgr, owner, appender, file, defines, job, counters, history, failure>>

Announced(t) == at[t] = "conf" /\ load[t].todo = {} /\ load[t].gone = {}

(* setValue() stores the value under the write lock.                       *)
Store(t) ==
    /\ Announced(t)
    /\ \A u \in Loaders : load[u] = NoLoad \/ Announced(u)
    /\ defines' = load[t].new
    /\ load' = [load EXCEPT ![t] = NoLoad]
    /\ Go(t, "idle")
    /\ UNCHANGED <<clock, objVars, job, counters, history, failure>>

LoadContinue(t) ==
    \/ ConfNew(t) \/ ConfSame(t) \/ ConfChanged(t) \/ ConfClear(t) \/ ConfMake(t) \/ ConfDone(t)
    \/ ConfGone(t) \/ Store(t)

-----------------------------------------------------------------------------
Continue(t) == LogStep(t) \/ UserContinue(t) \/ LoadContinue(t)
Begin(t) ==
    \/ UserBegin(t)
    \/ \E l \in Names : LogBegin(t, l)
    \/ \E doc \in Docs : LoadBegin(t, doc)

Next == ~failure /\ (Tick \/ \E t \in Threads : Begin(t) \/ Continue(t))

Spec == Init /\ [][Next]_vars

-----------------------------------------------------------------------------
(* Properties                                                              *)

(* Every event that passes the level tests is written exactly once by each *)
(* of the appenders that its logger, or the root logger if it has none,    *)
(* had at one moment during the call, whatever other threads attach, take  *)
(* off or reload meanwhile (log.cc:320 holds the lock over all of them).   *)
DeliveredOnce ==
    [][\A t \in Threads :
        at[t] = "each" /\ at'[t] \notin {"each", "reopen", "stamp", "write"} => done[t] = owed[t]]_vars

(* An appender without a formatter of its own writes with the one its      *)
(* logger has now (setFormatter() passes it on, log.cc:252), as long as it *)
(* is attached once in its life.                                           *)
InheritedFollows ==
    \A l \in Names : Free(l) =>
        \A a \in Range(logger[l].appenders) :
            appender[a].own \/ appender[a].formatter = logger[l].formatter

(* Outside a load a line that is in a file stays there: reopen() is called *)
(* now and then to notice a file that was deleted (README.md:154), it does *)
(* not empty the one that is still there (log.cc:389).                     *)
LinesStay ==
    [][(\A t \in Loaders : load[t] = NoLoad) => \A f \in Files : file[f] \subseteq file'[f]]_vars

(* The appenders that listeners made for a logger stand for the last of    *)
(* some entries, one for one and in their order.                           *)
Made(l) == Objects \cap Range(logger[l].appenders)
StandFor(l, entries, n) ==
    LET apps == logger[l].appenders IN
    \E m \in [Made(l) -> 1..n] :
        /\ \A a \in Made(l) : appender[a].file = entries[m[a]].file
        /\ \A i, j \in DOMAIN apps :
            i < j /\ apps[i] \in Objects /\ apps[j] \in Objects => m[apps[i]] < m[apps[j]]
        /\ \A a \in Made(l) : \A k \in m[a]..n : \E b \in Made(l) : m[b] = k

(* Once a load is over, the appenders that listeners made for a logger are *)
(* those of its present definition, each once and in order, from the one   *)
(* after another thread's last clearAppenders() on: none of an earlier     *)
(* definition goes on writing and none writes twice.                       *)
NoStaleAppenders ==
    (\A t \in Loaders : load[t] = NoLoad) =>
        \A l \in Names :
            \/ Made(l) = {}
            \/ /\ l \in DOMAIN defines
               /\ StandFor(l, defines[l].appenders, Len(defines[l].appenders))

(* Once a load is over, a logger that it defines has the appenders of its  *)
(* definition, also one that was not defined before (log.cc:701), as long  *)
(* as nobody else clears it.                                               *)
DefinedIsSetUp ==
    (\A t \in Loaders : load[t] = NoLoad) =>
        \A l \in DOMAIN defines : Cardinality(Made(l)) = Len(defines[l].appenders)

Manager == -1      \* stands for the manager's lock among the names

(* The locks a thread holds, and the one it waits for or takes next.       *)
Held(t) == {l \in Names : owner[l] = t} \cup (IF mgr = t THEN {Manager} ELSE {})
Awaits(t) ==
    CASE at[t] \in {"lock", "addLock", "fmtLock"} -> {job[t].lg}
      [] at[t] \in {"confClear", "goneClear"} -> {load[t].cur}
      [] at[t] = "dump" /\ job[t].todo # {} -> {Min(job[t].todo)}
      [] at[t] = "conf" /\ ~Announced(t) -> {Manager}
      [] OTHER -> {}
Rank(lock) == IF lock = Manager THEN 0 ELSE IF lock = Root THEN 2 ELSE 1

(* No deadlock: whoever holds a lock waits only for one further on in the  *)
(* order manager, logger, root logger.  None of the mutexes is recursive,  *)
(* and log() of a logger without appenders keeps its own lock while it     *)
(* takes the root logger's (log.cc:329).                                   *)
LocksInOrder ==
    \A t \in Threads : \A held \in Held(t), next \in Awaits(t) : Rank(held) < Rank(next)

(* LogFormatter reads every pattern of up to MaxPattern characters that    *)
(* does not double a '%' as its grammar says and reports all others        *)
(* (log.cc:436).  That does not depend on the state: it is evaluated before*)
(* anything has happened.                                                  *)
AtStart == events + calls + loads = 0 /\ clock = 1
PatternsRead == AtStart => ReadsPatterns

(* A doubled '%' is a form of its own (log.cc:435) and writes one.         *)
DoubledRead == AtStart => ReadsDoubled
=============================================================================
