----------------------------- MODULE LogProofs ------------------------------
(***************************************************************************)
(* Theorems about Log and LogFormatter, for any threads, loggers,          *)
(* appenders, documents, patterns and bounds.                              *)
(***************************************************************************)
EXTENDS Log, SequenceTheorems, WellFoundedInduction, TLAPS

-----------------------------------------------------------------------------
(* Numbers and sequences                                                   *)

(* A set of numbers that is not empty has a minimum, and Min is in it.     *)
LEMMA MinIsIn ==
    ASSUME NEW S \in SUBSET Nat, S # {}
    PROVE  Min(S) \in S /\ \A y \in S : Min(S) <= y
<1>1. PICK x \in S : \A y \in S : ~(<<y, x>> \in OpToRel(<, Nat))
  BY NatLessThanWellFounded, WFMin
<1>2. \A y \in S : x <= y
  <2> SUFFICES ASSUME NEW y \in S PROVE x <= y  OBVIOUS
  <2>1. ~(<<y, x>> \in OpToRel(<, Nat))  BY <1>1
  <2>2. <<y, x>> \in Nat \X Nat  OBVIOUS
  <2> QED  BY <2>1, <2>2 DEF OpToRel
<1> QED  BY <1>2 DEF Min

(* Append adds one element, the last.                                      *)
LEMMA AppendElements ==
    ASSUME NEW S, NEW s \in Seq(S), NEW a
    PROVE  /\ DOMAIN s = 1..Len(s) /\ Len(s) \in Nat
           /\ DOMAIN Append(s, a) = 1..(Len(s) + 1)
           /\ Append(s, a)[Len(s) + 1] = a
           /\ \A i \in 1..Len(s) : Append(s, a)[i] = s[i]
           /\ Range(Append(s, a)) = Range(s) \cup {a}
<1>1. PICK T : T = S \cup {a}  OBVIOUS
<1>2. s \in Seq(T) /\ <<a>> \in Seq(T)  BY <1>1
<1>3. Append(s, a) = s \o <<a>>  BY <1>2
<1>4. Range(s \o <<a>>) = Range(s) \cup Range(<<a>>)  BY <1>2, RangeConcatenation, ZenonT(60)
<1>5. Range(<<a>>) = {a}  BY DEF Range
<1>6. Range(Append(s, a)) = Range(s) \cup {a}  BY <1>3, <1>4, <1>5
<1> QED  BY <1>2, <1>6

(* RemoveAt: what is before and behind the element that is taken out.      *)
LEMMA RemoveAtElements ==
    ASSUME NEW S, NEW s \in Seq(S), NEW m \in 1..Len(s)
    PROVE  /\ RemoveAt(s, m) \in Seq(S)
           /\ Len(RemoveAt(s, m)) = Len(s) - 1
           /\ \A i \in 1..(Len(s) - 1) :
                RemoveAt(s, m)[i] = IF i < m THEN s[i] ELSE s[i + 1]
<1>1. PICK p, q : p = SubSeq(s, 1, m - 1) /\ q = SubSeq(s, m + 1, Len(s))  OBVIOUS
<1>2. p \in Seq(S) /\ Len(p) = m - 1 /\ \A i \in 1..(m - 1) : p[i] = s[i]  BY <1>1
<1>3. q \in Seq(S) /\ Len(q) = Len(s) - m /\ \A i \in 1..(Len(s) - m) : q[i] = s[m + i]
  BY <1>1
<1>4. RemoveAt(s, m) = p \o q  BY <1>1 DEF RemoveAt
<1>5. p \o q \in Seq(S) /\ Len(p \o q) = Len(s) - 1
  <2>1. p \in Seq(S) /\ q \in Seq(S)  BY <1>2, <1>3
  <2>2. p \o q \in Seq(S) /\ Len(p \o q) = Len(p) + Len(q)  BY <2>1, ConcatProperties
  <2>3. Len(s) \in Nat /\ m \in Nat  OBVIOUS
  <2>4. Len(p) + Len(q) = Len(s) - 1  BY <1>2, <1>3, <2>3
  <2> QED  BY <2>2, <2>4
<1>6. ASSUME NEW i \in 1..(Len(s) - 1)
      PROVE  (p \o q)[i] = IF i < m THEN s[i] ELSE s[i + 1]
  <2>1. (p \o q)[i] = IF i <= Len(p) THEN p[i] ELSE q[i - Len(p)]  BY <1>2, <1>3
  <2>2. CASE i < m  BY <1>2, <2>1, <2>2
  <2>3. CASE ~(i < m)
    <3>1. (p \o q)[i] = q[i - (m - 1)]  BY <1>2, <2>1, <2>3
    <3>2. i - (m - 1) \in 1..(Len(s) - m) /\ m + (i - (m - 1)) = i + 1  BY <2>3
    <3> QED  BY <1>3, <2>3, <3>1, <3>2
  <2> QED  BY <2>2, <2>3
<1> QED  BY <1>4, <1>5, <1>6

(* RemoveFirst keeps a sequence over its set, adds no element, takes off   *)
(* none but e, and keeps the order of the others.                          *)
LEMMA RemoveFirstShrinks ==
    ASSUME NEW S, NEW s \in Seq(S), NEW e
    PROVE  /\ RemoveFirst(s, e) \in Seq(S)
           /\ Range(RemoveFirst(s, e)) \subseteq Range(s)
           /\ Range(s) \subseteq Range(RemoveFirst(s, e)) \cup {e}
           /\ \A i, j \in DOMAIN RemoveFirst(s, e) : i < j =>
                \E x, y \in DOMAIN s :
                    x < y /\ s[x] = RemoveFirst(s, e)[i] /\ s[y] = RemoveFirst(s, e)[j]
<1>1. CASE ~\E i \in 1..Len(s) : s[i] = e
  <2>1. RemoveFirst(s, e) = s  BY <1>1 DEF RemoveFirst
  <2> QED  BY <2>1
<1>2. CASE \E i \in 1..Len(s) : s[i] = e
  <2>1. PICK I : I = {i \in 1..Len(s) : s[i] = e}  OBVIOUS
  <2>2. I \in SUBSET Nat /\ I # {}  BY <1>2, <2>1
  <2>3. PICK m : m = Min(I)  OBVIOUS
  <2>4. m \in 1..Len(s) /\ s[m] = e  BY <2>1, <2>2, <2>3, MinIsIn
  <2>5. PICK r : r = RemoveAt(s, m)  OBVIOUS
  <2>6. RemoveFirst(s, e) = r
    BY <1>2, <2>1, <2>2, <2>3, <2>5 DEF RemoveFirst, SelectInSeq
  <2>7. /\ r \in Seq(S) /\ Len(r) = Len(s) - 1
        /\ \A i \in 1..(Len(s) - 1) : r[i] = IF i < m THEN s[i] ELSE s[i + 1]
    BY <2>4, <2>5, RemoveAtElements
  <2>8. Range(r) \subseteq Range(s)
    <3> SUFFICES ASSUME NEW i \in DOMAIN r PROVE \E x \in DOMAIN s : s[x] = r[i]  BY DEF Range
    <3>1. i \in 1..(Len(s) - 1)  BY <2>7
    <3>2. i \in DOMAIN s /\ i + 1 \in DOMAIN s  BY <3>1
    <3> QED  BY <2>7, <3>1, <3>2
  <2>9. Range(s) \subseteq Range(r) \cup {e}
    <3> SUFFICES ASSUME NEW x \in DOMAIN s, s[x] # e PROVE \E i \in DOMAIN r : r[i] = s[x]
      BY DEF Range
    <3>1. x \in 1..Len(s) /\ x # m  BY <2>4
    <3>2. CASE x < m
      <4>1. x \in 1..(Len(s) - 1)  BY <2>4, <3>1, <3>2
      <4> QED  BY <2>7, <3>2, <4>1
    <3>3. CASE ~(x < m)
      <4>1. x - 1 \in 1..(Len(s) - 1) /\ ~(x - 1 < m) /\ (x - 1) + 1 = x  BY <2>4, <3>1, <3>3
      <4> QED  BY <2>7, <4>1
    <3> QED  BY <3>2, <3>3
  <2>10. ASSUME NEW i \in DOMAIN r, NEW j \in DOMAIN r, i < j
         PROVE  \E x, y \in DOMAIN s : x < y /\ s[x] = r[i] /\ s[y] = r[j]
    <3>1. i \in 1..(Len(s) - 1) /\ j \in 1..(Len(s) - 1)  BY <2>7
    <3>2. PICK x, y : x = (IF i < m THEN i ELSE i + 1) /\ y = (IF j < m THEN j ELSE j + 1)  OBVIOUS
    <3>3. x \in 1..Len(s) /\ y \in 1..Len(s) /\ x < y  BY <2>4, <2>10, <3>1, <3>2
    <3>4. s[x] = r[i] /\ s[y] = r[j]  BY <2>7, <3>1, <3>2
    <3> QED  BY <3>3, <3>4
  <2> QED  BY <2>6, <2>7, <2>8, <2>9, <2>10
<1> QED  BY <1>1, <1>2

-----------------------------------------------------------------------------
(* Places and locks                                                        *)

(* What the variables are, as far as the proofs need it.                   *)

JobFields == {"lg", "n", "ev", "now", "ap", "has", "p", "todo"}
LoadFields == {"old", "new", "cur", "n", "todo", "gone"}
LoggerFields == {"level", "formatter", "appenders"}
AppenderFields == {"own", "formatter", "file", "lastTime"}

JobOK(j) ==
    /\ DOMAIN j = JobFields
    /\ j.lg \in Names /\ j.n \in Nat /\ j.ap \in Appenders \cup {Null} /\ j.todo \in SUBSET Names
LoadOK(d) ==
    /\ DOMAIN d = LoadFields
    /\ DOMAIN d.new \subseteq Names /\ d.cur \in Names /\ d.n \in Nat
    /\ d.todo \in SUBSET Names /\ d.gone \in SUBSET Names
LoggerOK(lg) == DOMAIN lg = LoggerFields /\ lg.appenders \in Seq(Appenders)

JobsOK == DOMAIN job = Threads /\ \A t \in Threads : JobOK(job[t])
LoadsOK == DOMAIN load = Threads /\ \A t \in Threads : LoadOK(load[t])
LoggersOK == DOMAIN logger = Names /\ \A l \in Names : LoggerOK(logger[l])
AppendersOK ==
    DOMAIN appender = Appenders /\ \A a \in Appenders : DOMAIN appender[a] = AppenderFields
DomainsOK ==
    /\ DOMAIN at = Threads /\ DOMAIN owner = Names
    /\ DOMAIN owed = Threads /\ DOMAIN done = Threads
    /\ known \in SUBSET Names /\ DOMAIN defines \subseteq Names
Shape == JobsOK /\ LoadsOK /\ LoggersOK /\ AppendersOK /\ DomainsOK

Writing == {"each", "reopen", "stamp", "write"}
Owning == Writing \cup {"add", "fmt"}       \* the logger of the job is locked
Adding == {"addLock", "add"}
Loading == {"conf", "confClear", "goneClear", "confAdd"}

(* What a job and a load are worth where.                                  *)
Stage(t) ==
    /\ at[t] \in Adding => job[t].ap \in Appenders
    /\ at[t] \notin Adding \cup {"reopen", "stamp", "write"} => job[t].ap = Null
    /\ at[t] \notin Writing \cup {"fmt"} => job[t].n = 0
    /\ at[t] \in Loading => load[t] # NoLoad
    /\ at[t] \in {"idle", "dump"} => load[t] = NoLoad
    /\ load[t] # NoLoad => t \in Loaders /\ load[t].old # load[t].new
Stages == \A t \in Threads : Stage(t)

(* Which locks a thread holds where.  Before log() has the lock of the     *)
(* root logger, it may hold that of a logger that has no appenders.        *)
Locking(t) ==
    /\ \A l \in Names : owner[l] = t =>
        \/ at[t] \in Owning
        \/ at[t] \in {"log", "lock"} /\ job[t].lg = Root /\ l # Root
    /\ at[t] \in Owning => owner[job[t].lg] = t
    /\ mgr = t <=> at[t] = "dump"
Lockings == \A t \in Threads : Locking(t)

(* No job, and no load, has the fields of one.                             *)
LEMMA NothingOK == JobOK(NoJob) /\ LoadOK(NoLoad)
<1>1. JobOK(NoJob)  BY NamesAssumption DEF JobOK, NoJob, JobFields
<1>2. LoadOK(NoLoad)  BY NamesAssumption DEF LoadOK, NoLoad, LoadFields
<1> QED  BY <1>1, <1>2

(* A thread's job is replaced by another one.                              *)
LEMMA JobStep ==
    ASSUME JobsOK, NEW t \in Threads, NEW j, JobOK(j), job' = [job EXCEPT ![t] = j]
    PROVE  JobsOK'
BY DEF JobsOK

(* The operation of a thread ends.                                         *)
LEMMA ReturnShape ==
    ASSUME Shape, NEW t \in Threads, NEW label, Return(t, label)
    PROVE  JobsOK' /\ DOMAIN at' = Threads
BY NothingOK, JobStep DEF Return, Go, Shape, DomainsOK

(* The variables that most steps leave alone.                              *)
LEMMA ShapeFrame ==
    ASSUME Shape, UNCHANGED <<logger, appender, load>>, JobsOK', DomainsOK'
    PROVE  Shape'
BY DEF Shape, LoadsOK, LoggersOK, AppendersOK

(* The variables are what they should be at the beginning.                 *)
LEMMA InitShape == Init => Shape
<1> SUFFICES ASSUME Init PROVE Shape  OBVIOUS
<1>1. JobsOK  BY NothingOK DEF Init, JobsOK
<1>2. LoadsOK  BY NothingOK DEF Init, LoadsOK
<1>3. LoggersOK
  <2>1. RootAppender \in Appenders  BY DEF Appenders
  <2>2. <<RootAppender>> \in Seq(Appenders) /\ << >> \in Seq(Appenders)  BY <2>1
  <2> QED  BY <2>2 DEF Init, LoggersOK, LoggerOK, LoggerFields
<1>4. AppendersOK  BY DEF Init, AppendersOK, AppenderFields, NoAppender
<1>5. DomainsOK  BY NamesAssumption DEF Init, DomainsOK
<1> QED  BY <1>1, <1>2, <1>3, <1>4, <1>5 DEF Shape

(* The steps of log() keep the shape.                                      *)
LEMMA LogStepShape ==
    ASSUME Shape, NEW t \in Threads, LogStep(t)
    PROVE  Shape'
<1> USE DEF Shape, DomainsOK, Go
<1>1. CASE LogLevel(t)
  <2>1. JobsOK' /\ DOMAIN at' = Threads  BY <1>1, ReturnShape DEF LogLevel, JobsOK
  <2>2. DomainsOK'  BY <1>1, <2>1 DEF LogLevel, Release, history
  <2> QED  BY <1>1, <2>1, <2>2, ShapeFrame DEF LogLevel
<1>2. CASE LogLock(t)
  <2>1. JobsOK' /\ DOMAIN at' = Threads
    <3>1. CASE UNCHANGED job  BY <1>2, <3>1, ReturnShape DEF LogLock, JobsOK
    <3>2. CASE job' = [job EXCEPT ![t].lg = Root]
      <4>1. JobsOK'  BY <3>2, NamesAssumption DEF JobsOK, JobOK, JobFields
      <4> QED  BY <1>2, <4>1, ReturnShape DEF LogLock
    <3> QED  BY <1>2, <3>1, <3>2, ReturnShape DEF LogLock
  <2>2. DomainsOK'  BY <1>2, <2>1 DEF LogLock, Release
  <2> QED  BY <1>2, <2>1, <2>2, ShapeFrame DEF LogLock
<1>3. CASE LogEnd(t)
  <2>1. JobsOK' /\ DOMAIN at' = Threads  BY <1>3, ReturnShape DEF LogEnd
  <2>2. DomainsOK'  BY <1>3, <2>1 DEF LogEnd, Release
  <2> QED  BY <1>3, <2>1, <2>2, ShapeFrame DEF LogEnd
<1>4. CASE LogStdout(t)
  <2>1. JobsOK'  BY <1>4 DEF LogStdout, Wrote, JobsOK, JobOK, JobFields
  <2>2. DomainsOK'  BY <1>4 DEF LogStdout, Wrote, objVars
  <2> QED  BY <1>4, <2>1, <2>2, ShapeFrame DEF LogStdout, objVars
<1>5. CASE LogFile(t)
  <2>1. PICK a : a = List(t)[job[t].n + 1]  OBVIOUS
  <2>2. a \in Appenders
    <3>1. List(t) \in Seq(Appenders)  BY DEF List, LoggersOK, LoggerOK, JobsOK, JobOK
    <3>2. job[t].n \in Nat /\ job[t].n < Len(List(t))  BY <1>5 DEF LogFile, JobsOK, JobOK
    <3> QED  BY <2>1, <3>1, <3>2
  <2>3. job' = [job EXCEPT ![t].ap = a, ![t].now = clock]  BY <1>5, <2>1 DEF LogFile
  <2>4. JobsOK'  BY <2>2, <2>3 DEF JobsOK, JobOK, JobFields
  <2>5. DomainsOK'  BY <1>5 DEF LogFile, objVars, history
  <2> QED  BY <1>5, <2>4, <2>5, ShapeFrame DEF LogFile, objVars
<1>6. CASE LogReopen(t)
  <2>1. JobsOK'  BY <1>6 DEF LogReopen, JobsOK
  <2>2. DomainsOK'  BY <1>6 DEF LogReopen, history
  <2> QED  BY <1>6, <2>1, <2>2, ShapeFrame DEF LogReopen
<1>7. CASE LogStamp(t)
  <2>1. AppendersOK'  BY <1>7 DEF LogStamp, AppendersOK, AppenderFields
  <2>2. DomainsOK'  BY <1>7 DEF LogStamp, history
  <2> QED  BY <1>7, <2>1, <2>2 DEF LogStamp, JobsOK, LoadsOK, LoggersOK
<1>8. CASE LogWrite(t)
  <2>1. JobsOK'  BY <1>8 DEF LogWrite, JobsOK, JobOK, JobFields
  <2>2. DomainsOK'  BY <1>8 DEF LogWrite
  <2> QED  BY <1>8, <2>1, <2>2, ShapeFrame DEF LogWrite
<1> QED  BY <1>1, <1>2, <1>3, <1>4, <1>5, <1>6, <1>7, <1>8 DEF LogStep

(* So do the operations of users.                                          *)
LEMMA UserShape ==
    ASSUME Shape, Stages, NEW t \in Threads, UserBegin(t) \/ UserContinue(t)
    PROVE  Shape'
<1> USE DEF Shape, DomainsOK, Go
<1>1. CASE UserSection(t)
  <2>1. UNCHANGED <<owner, defines, at, job, load, owed, done>>  BY <1>1 DEF UserSection, history
  <2>2. LoggersOK' /\ AppendersOK' /\ known' \in SUBSET Names
    <3>1. CASE \E l \in Names : getLogger(l)
      BY <3>1 DEF getLogger, LoggersOK, AppendersOK
    <3>2. CASE \E l \in Names : delAppender(l)
      <4>1. PICK l \in Names : delAppender(l)  BY <3>2
      <4>2. PICK s : s = RemoveFirst(logger[l].appenders, UserAppender)  OBVIOUS
      <4>3. s \in Seq(Appenders)  BY <4>2, RemoveFirstShrinks DEF LoggersOK, LoggerOK
      <4>4. logger' = [logger EXCEPT ![l].appenders = s]  BY <4>1, <4>2 DEF delAppender
      <4>5. LoggersOK'  BY <4>3, <4>4 DEF LoggersOK, LoggerOK, LoggerFields
      <4> QED  BY <4>1, <4>5 DEF delAppender, AppendersOK
    <3>3. CASE \E l \in Names : clearAppenders(l)
      <4>1. PICK l \in Names : clearAppenders(l)  BY <3>3
      <4>2. logger' = [logger EXCEPT ![l].appenders = << >>] /\ appender' = Destroyed(l) /\ known' = known
        BY <4>1 DEF clearAppenders, Cleared
      <4>3. LoggersOK'  BY <4>2 DEF LoggersOK, LoggerOK, LoggerFields
      <4>4. AppendersOK'  BY <4>2 DEF AppendersOK, Destroyed, NoAppender, AppenderFields
      <4> QED  BY <4>2, <4>3, <4>4
    <3>4. CASE \E l \in Names : SetLevel(l)
      BY <3>4 DEF SetLevel, LoggersOK, LoggerOK, LoggerFields, AppendersOK
    <3>5. CASE \E p \in UserPatterns : AppenderSetFormatter(p)
      BY <3>5 DEF AppenderSetFormatter, LoggersOK, AppendersOK, AppenderFields
    <3> QED  BY <1>1, <3>1, <3>2, <3>3, <3>4, <3>5 DEF UserSection
  <2> QED  BY <2>1, <2>2 DEF JobsOK, LoadsOK
<1>2. CASE DumpBegin(t)
  <2>1. JobsOK'  BY <1>2 DEF DumpBegin, JobsOK, JobOK, JobFields
  <2>2. DomainsOK'  BY <1>2 DEF DumpBegin, history
  <2> QED  BY <1>2, <2>1, <2>2, ShapeFrame DEF DumpBegin
<1>3. ASSUME NEW l \in Names, AddBegin(t, l)  PROVE Shape'
  <2>1. UserAppender \in Appenders  BY DEF Appenders
  <2>2. JobOK([NoJob EXCEPT !.lg = l, !.ap = UserAppender])
    BY <2>1, NothingOK DEF JobOK, JobFields
  <2>3. JobsOK'  BY <1>3, <2>2, JobStep DEF AddBegin
  <2>4. DomainsOK'  BY <1>3 DEF AddBegin, objVars
  <2> QED  BY <1>3, <2>3, <2>4, ShapeFrame DEF AddBegin, objVars
<1>4. ASSUME NEW l \in Names, NEW p, FmtBegin(t, l, p)  PROVE Shape'
  <2>1. JobOK([NoJob EXCEPT !.lg = l, !.p = p])  BY NothingOK DEF JobOK, JobFields
  <2>2. JobsOK'  BY <1>4, <2>1, JobStep DEF FmtBegin
  <2>3. DomainsOK'  BY <1>4 DEF FmtBegin, objVars, history
  <2> QED  BY <1>4, <2>2, <2>3, ShapeFrame DEF FmtBegin, objVars
<1>5. CASE AddLock(t)
  <2>1. PICK b : b = (appender[job[t].ap].formatter # Null)  OBVIOUS
  <2>2. job' = [job EXCEPT ![t].has = b]  BY <1>5, <2>1 DEF AddLock
  <2>3. JobsOK'  BY <2>2 DEF JobsOK, JobOK, JobFields
  <2>4. DomainsOK'  BY <1>5 DEF AddLock, history
  <2> QED  BY <1>5, <2>3, <2>4, ShapeFrame DEF AddLock
<1>6. CASE AddEnd(t)
  <2>1. JobsOK' /\ DOMAIN at' = Threads  BY <1>6, ReturnShape DEF AddEnd
  <2>2. DomainsOK'  BY <1>6, <2>1 DEF AddEnd, Release, history
  <2>3. LoggersOK'
    <3>1. job[t].ap \in Appenders /\ job[t].lg \in Names
      BY <1>6 DEF AddEnd, Stages, Stage, Adding, JobsOK, JobOK
    <3>2. PICK s : s = Append(logger[job[t].lg].appenders, job[t].ap)  OBVIOUS
    <3>3. s \in Seq(Appenders)  BY <3>1, <3>2 DEF LoggersOK, LoggerOK
    <3>4. logger' = [logger EXCEPT ![job[t].lg].appenders = s]  BY <1>6, <3>2 DEF AddEnd
    <3> QED  BY <3>3, <3>4 DEF LoggersOK, LoggerOK, LoggerFields
  <2>4. AppendersOK'  BY <1>6 DEF AddEnd, AppendersOK, AppenderFields
  <2> QED  BY <1>6, <2>1, <2>2, <2>3, <2>4 DEF AddEnd, LoadsOK
<1>7. CASE FmtLock(t)
  <2>1. LoggersOK'  BY <1>7 DEF FmtLock, LoggersOK, LoggerOK, LoggerFields
  <2>2. DomainsOK'  BY <1>7 DEF FmtLock, history
  <2> QED  BY <1>7, <2>1, <2>2 DEF FmtLock, JobsOK, LoadsOK, AppendersOK
<1>8. CASE FmtEach(t)
  <2>1. JobsOK'  BY <1>8 DEF FmtEach, JobsOK, JobOK, JobFields
  <2>2. AppendersOK'  BY <1>8 DEF FmtEach, AppendersOK, AppenderFields
  <2>3. DomainsOK'  BY <1>8 DEF FmtEach, history
  <2> QED  BY <1>8, <2>1, <2>2, <2>3 DEF FmtEach, LoadsOK, LoggersOK
<1>9. CASE FmtEnd(t)
  <2>1. JobsOK' /\ DOMAIN at' = Threads  BY <1>9, ReturnShape DEF FmtEnd
  <2>2. DomainsOK'  BY <1>9, <2>1 DEF FmtEnd, Release, history
  <2> QED  BY <1>9, <2>1, <2>2, ShapeFrame DEF FmtEnd
<1>10. CASE DumpOne(t)
  <2>1. JobsOK'  BY <1>10 DEF DumpOne, JobsOK, JobOK, JobFields
  <2>2. DomainsOK'  BY <1>10 DEF DumpOne, objVars, history
  <2> QED  BY <1>10, <2>1, <2>2, ShapeFrame DEF DumpOne, objVars
<1>11. CASE DumpEnd(t)
  <2>1. JobsOK'  BY <1>11 DEF DumpEnd, JobsOK
  <2>2. DomainsOK'  BY <1>11 DEF DumpEnd, history
  <2> QED  BY <1>11, <2>1, <2>2, ShapeFrame DEF DumpEnd
<1> QED
  BY <1>1, <1>2, <1>3, <1>4, <1>5, <1>6, <1>7, <1>8, <1>9, <1>10, <1>11 DEF UserBegin, UserContinue

(* Some parts of a load are replaced.                                      *)
LEMMA LoadStep ==
    ASSUME LoadsOK, NEW t \in Threads, NEW d, LoadOK(d), load' = [load EXCEPT ![t] = d]
    PROVE  LoadsOK'
BY DEF LoadsOK

(* The names that a document defines are names of loggers.                 *)
LEMMA DefinedNames ==
    ASSUME NEW doc \in Docs, Converts(doc)
    PROVE  DOMAIN Definitions(doc) \subseteq Names
<1>1. \A i \in DOMAIN doc : doc[i].name \in Names  BY DocsAssumption DEF Converts
<1> QED  BY <1>1 DEF Definitions

(* So do the steps of a load.                                              *)
LEMMA LoadShape ==
    ASSUME Shape, Stages, NEW t \in Threads, LoadContinue(t) \/ \E doc \in Docs : LoadBegin(t, doc)
    PROVE  Shape'
<1> USE DEF Shape, DomainsOK, Go
<1> LoadOK(load[t]) /\ load[t].todo \in SUBSET Nat /\ load[t].gone \in SUBSET Nat
  BY NamesAssumption DEF LoadsOK, LoadOK
<1>1. ASSUME NEW doc \in Docs, LoadBegin(t, doc)  PROVE Shape'
  <2>1. PICK new : new = Definitions(doc)  OBVIOUS
  <2>2. DOMAIN new \subseteq Names  BY <1>1, <2>1, DefinedNames DEF LoadBegin
  <2>3. PICK d : d = [old |-> defines, new |-> new, cur |-> Root, n |-> 0,
                      todo |-> DOMAIN new, gone |-> DOMAIN defines \ DOMAIN new]
    OBVIOUS
  <2>4. LoadOK(d)  BY <2>2, <2>3, NamesAssumption DEF LoadOK, LoadFields
  <2>5. load' = [load EXCEPT ![t] = d]  BY <1>1, <2>1, <2>3 DEF LoadBegin
  <2>6. LoadsOK'  BY <2>4, <2>5, LoadStep
  <2>7. JobsOK'
    <3>1. \A k : JobOK([NoJob EXCEPT !.lg = Root, !.ev = k])
      BY NothingOK, NamesAssumption DEF JobOK, JobFields
    <3> QED  BY <1>1, <3>1, JobStep DEF LoadBegin, Event, JobsOK
  <2>8. DomainsOK'  BY <1>1 DEF LoadBegin, objVars, history
  <2> QED  BY <1>1, <2>6, <2>7, <2>8 DEF LoadBegin, objVars, LoggersOK, AppendersOK
<1>2. CASE ConfNew(t)
  <2>1. LoadsOK'  BY <1>2 DEF ConfNew, LoadsOK, LoadOK, LoadFields
  <2>2. DomainsOK'  BY <1>2 DEF ConfNew, history
  <2> QED  BY <1>2, <2>1, <2>2 DEF ConfNew, JobsOK, LoggersOK, AppendersOK
<1>3. CASE ConfSame(t)
  <2>1. DomainsOK'  BY <1>3 DEF ConfSame, objVars, history
  <2> QED  BY <1>3, <2>1 DEF ConfSame, objVars, JobsOK, LoadsOK, LoggersOK, AppendersOK
<1>4. CASE ConfChanged(t)
  <2>1. PICK l \in Names : l = NextName(t)
    BY <1>4, MinIsIn DEF ConfChanged, NextName, LoadOK
  <2>2. PICK def : def = load[t].new[l]  OBVIOUS
  <2>3. load' = [load EXCEPT ![t].cur = l, ![t].n = 0]  BY <1>4, <2>1 DEF ConfChanged
  <2>4. LoadsOK'  BY <2>3 DEF LoadsOK, LoadOK, LoadFields
  <2>5. logger' = [logger EXCEPT ![l].level = def.level] /\ known' = known \cup {l}
    BY <1>4, <2>1, <2>2 DEF ConfChanged
  <2>6. LoggersOK'  BY <2>5 DEF LoggersOK, LoggerOK, LoggerFields
  <2>7. JobsOK'
    <3>1. CASE UNCHANGED job  BY <3>1 DEF JobsOK
    <3>2. CASE job' = [job EXCEPT ![t].lg = l, ![t].p = def.formatter]
      BY <3>2 DEF JobsOK, JobOK, JobFields
    <3> QED  BY <1>4, <2>1, <2>2, <3>1, <3>2 DEF ConfChanged
  <2>8. DomainsOK'  BY <1>4, <2>5 DEF ConfChanged, history
  <2> QED  BY <1>4, <2>4, <2>6, <2>7, <2>8 DEF ConfChanged, AppendersOK
<1>5. CASE ConfClear(t)
  <2>1. PICK l \in Names : l = load[t].cur  BY DEF LoadOK
  <2>2. logger' = [logger EXCEPT ![l].appenders = << >>] /\ appender' = Destroyed(l)
    BY <1>5, <2>1 DEF ConfClear, Cleared
  <2>3. LoggersOK'  BY <2>2 DEF LoggersOK, LoggerOK, LoggerFields
  <2>4. AppendersOK'  BY <2>2 DEF AppendersOK, Destroyed, NoAppender, AppenderFields
  <2>5. DomainsOK'  BY <1>5 DEF ConfClear, history
  <2> QED  BY <1>5, <2>3, <2>4, <2>5 DEF ConfClear, JobsOK, LoadsOK
<1>6. CASE ConfMake(t)
  <2>1. PICK a \in Objects : a = Min(Unused)
    BY <1>6, MinIsIn, AppendersAssumption DEF ConfMake, Unused
  <2>2. PICK r : r = [own |-> Def(t).appenders[load[t].n + 1].formatter # Null
                              /\ ~isError(Def(t).appenders[load[t].n + 1].formatter),
                      formatter |-> IF Def(t).appenders[load[t].n + 1].formatter # Null
                                       /\ ~isError(Def(t).appenders[load[t].n + 1].formatter)
                                    THEN Def(t).appenders[load[t].n + 1].formatter ELSE Null,
                      file |-> Def(t).appenders[load[t].n + 1].file, lastTime |-> 0]
    OBVIOUS
  <2>3. DOMAIN r = AppenderFields  BY <2>2 DEF AppenderFields
  <2>4. appender' = [appender EXCEPT ![a] = r]  BY <1>6, <2>1, <2>2 DEF ConfMake
  <2>5. AppendersOK'  BY <2>3, <2>4 DEF AppendersOK
  <2>6. job' = [job EXCEPT ![t].lg = load[t].cur, ![t].ap = a]  BY <1>6, <2>1 DEF ConfMake
  <2>7. JobsOK'  BY <2>6 DEF JobsOK, JobOK, JobFields, LoadOK, Appenders
  <2>8. LoadsOK'  BY <1>6 DEF ConfMake, LoadsOK, LoadOK, LoadFields
  <2>9. DomainsOK'  BY <1>6 DEF ConfMake, history
  <2> QED  BY <1>6, <2>5, <2>7, <2>8, <2>9 DEF ConfMake, LoggersOK
<1>7. CASE ConfDone(t)
  <2>1. LoadsOK'  BY <1>7 DEF ConfDone, LoadsOK, LoadOK, LoadFields
  <2>2. DomainsOK'  BY <1>7 DEF ConfDone, objVars, history
  <2> QED  BY <1>7, <2>1, <2>2 DEF ConfDone, objVars, JobsOK, LoggersOK, AppendersOK
<1>8. CASE ConfGone(t)
  <2>1. PICK l \in Names : l = Min(load[t].gone)
    BY <1>8, MinIsIn DEF ConfGone, LoadOK
  <2>2. load' = [load EXCEPT ![t].cur = l, ![t].gone = @ \ {l}]  BY <1>8, <2>1 DEF ConfGone
  <2>3. LoadsOK'  BY <2>2 DEF LoadsOK, LoadOK, LoadFields
  <2>4. logger' = [logger EXCEPT ![l].level = Removed] /\ known' = known \cup {l}
    BY <1>8, <2>1 DEF ConfGone
  <2>5. LoggersOK'  BY <2>4 DEF LoggersOK, LoggerOK, LoggerFields
  <2>6. DomainsOK'  BY <1>8, <2>4 DEF ConfGone, history
  <2> QED  BY <1>8, <2>3, <2>5, <2>6 DEF ConfGone, JobsOK, AppendersOK
<1>9. CASE Store(t)
  <2>1. LoadsOK'  BY <1>9, NothingOK, LoadStep DEF Store
  <2>2. DomainsOK'  BY <1>9 DEF Store, objVars, history, LoadOK
  <2> QED  BY <1>9, <2>1, <2>2 DEF Store, objVars, JobsOK, LoggersOK, AppendersOK
<1> QED  BY <1>1, <1>2, <1>3, <1>4, <1>5, <1>6, <1>7, <1>8, <1>9 DEF LoadContinue

(* A thread that begins or goes on leaves the others' jobs, loads, places, *)
(* histories and locks alone.                                              *)
Untouched(u) ==
    /\ at'[u] = at[u] /\ job'[u] = job[u] /\ load'[u] = load[u]
    /\ owed'[u] = owed[u] /\ done'[u] = done[u]
    /\ mgr' = u <=> mgr = u
    /\ \A l \in Names : owner'[l] = u <=> owner[l] = u

(* The steps of log() of one thread do not touch another.                  *)
LEMMA OthersLog ==
    ASSUME Shape, NEW t \in Threads, NEW u \in Threads \ {t},
           LogStep(t) \/ \E l \in Names : LogBegin(t, l)
    PROVE  Untouched(u)
<1> USE DEF Shape, DomainsOK, JobsOK, LoadsOK, Go, Untouched
<1>1. CASE LogLevel(t)
  BY <1>1, ThreadsAssumption DEF LogLevel, Release, Return, history
<1>2. CASE LogLock(t)
  BY <1>2, ThreadsAssumption DEF LogLock, Release, Return, Free
<1>3. CASE LogEnd(t)
  BY <1>3, ThreadsAssumption DEF LogEnd, Release, Return
<1>4. CASE LogStdout(t)
  BY <1>4 DEF LogStdout, Wrote, objVars
<1>5. CASE LogFile(t)
  BY <1>5 DEF LogFile, objVars, history
<1>6. CASE LogReopen(t) \/ LogStamp(t)
  BY <1>6 DEF LogReopen, LogStamp, history
<1>7. CASE LogWrite(t)
  BY <1>7 DEF LogWrite
<1>8. CASE \E l \in Names : LogBegin(t, l)
  BY <1>8 DEF LogBegin, Event, objVars, history
<1> QED  BY <1>1, <1>2, <1>3, <1>4, <1>5, <1>6, <1>7, <1>8 DEF LogStep

(* Nor do the steps of the other operations.                               *)
LEMMA OthersUser ==
    ASSUME Shape, Lockings, NEW t \in Threads, NEW u \in Threads \ {t},
           UserBegin(t) \/ UserContinue(t)
    PROVE  Untouched(u)
<1> USE DEF Shape, DomainsOK, JobsOK, LoadsOK, Go, Untouched
<1>1. CASE UserSection(t)  BY <1>1 DEF UserSection, history
<1>2. CASE DumpBegin(t)  BY <1>2, ThreadsAssumption DEF DumpBegin, history
<1>3. ASSUME NEW l \in Names, AddBegin(t, l)  PROVE Untouched(u)
  BY <1>3 DEF AddBegin, objVars
<1>4. ASSUME NEW l \in Names, NEW p, FmtBegin(t, l, p)  PROVE Untouched(u)
  BY <1>4 DEF FmtBegin, objVars, history
<1>5. CASE AddLock(t)
  <2>1. PICK b : b = (appender[job[t].ap].formatter # Null)  OBVIOUS
  <2>2. job' = [job EXCEPT ![t].has = b]  BY <1>5, <2>1 DEF AddLock
  <2> QED  BY <1>5, <2>2, ThreadsAssumption DEF AddLock, Free, history
<1>6. CASE AddEnd(t)  BY <1>6, ThreadsAssumption DEF AddEnd, Release, Return, history
<1>7. CASE FmtLock(t)  BY <1>7, ThreadsAssumption DEF FmtLock, Free, history
<1>8. CASE FmtEach(t)  BY <1>8 DEF FmtEach, history
<1>9. CASE FmtEnd(t)  BY <1>9, ThreadsAssumption DEF FmtEnd, Release, Return, history
<1>10. CASE DumpOne(t)  BY <1>10 DEF DumpOne, objVars, history
<1>11. CASE DumpEnd(t)
  BY <1>11, ThreadsAssumption DEF DumpEnd, history, Lockings, Locking
<1> QED
  BY <1>1, <1>2, <1>3, <1>4, <1>5, <1>6, <1>7, <1>8, <1>9, <1>10, <1>11 DEF UserBegin, UserContinue

(* Nor do the steps of a load.                                             *)
LEMMA OthersLoad ==
    ASSUME Shape, NEW t \in Threads, NEW u \in Threads \ {t},
           LoadContinue(t) \/ \E doc \in Docs : LoadBegin(t, doc)
    PROVE  Untouched(u)
<1> USE DEF Shape, DomainsOK, JobsOK, LoadsOK, Go, Untouched
<1>1. ASSUME NEW doc \in Docs, LoadBegin(t, doc)  PROVE Untouched(u)
  BY <1>1 DEF LoadBegin, Event, objVars, history
<1>2. CASE ConfNew(t)  BY <1>2 DEF ConfNew, history
<1>3. CASE ConfSame(t)  BY <1>3 DEF ConfSame, objVars, history
<1>4. CASE ConfChanged(t)  BY <1>4 DEF ConfChanged, history
<1>5. CASE ConfClear(t)  BY <1>5 DEF ConfClear, history
<1>6. CASE ConfMake(t)  BY <1>6 DEF ConfMake, history
<1>7. CASE ConfDone(t)  BY <1>7 DEF ConfDone, objVars, history
<1>8. CASE ConfGone(t)  BY <1>8 DEF ConfGone, history
<1>9. CASE Store(t)  BY <1>9 DEF Store, objVars, history
<1> QED  BY <1>1, <1>2, <1>3, <1>4, <1>5, <1>6, <1>7, <1>8, <1>9 DEF LoadContinue

(* The thread that takes a step of log() is at its stage again.            *)
LEMMA StageLog ==
    ASSUME Shape, Stages, Lockings, NEW t \in Threads,
           LogStep(t) \/ \E l \in Names : LogBegin(t, l)
    PROVE  Stage(t)' /\ Locking(t)'
<1> USE DEF Shape, DomainsOK, JobsOK, LoadsOK, Go, Stages, Stage, Lockings, Locking,
            Writing, Owning, Adding, Loading
<1> JobOK(job[t])  OBVIOUS
<1>1. CASE LogLevel(t)
  BY <1>1, ThreadsAssumption DEF LogLevel, Release, Return, history, NoJob
<1>2. CASE LogLock(t)
  <2>1. CASE owner' = [owner EXCEPT ![job[t].lg] = t] /\ at' = [at EXCEPT ![t] = "each"] /\ UNCHANGED job
    BY <1>2, <2>1, ThreadsAssumption DEF LogLock, JobOK
  <2>2. CASE owner' = [owner EXCEPT ![job[t].lg] = t] /\ HasRoot(job[t].lg)
             /\ at' = [at EXCEPT ![t] = "log"] /\ job' = [job EXCEPT ![t].lg = Root]
    BY <1>2, <2>2, ThreadsAssumption DEF LogLock, JobOK, JobFields, HasRoot
  <2>3. CASE Release(t) /\ Return(t, "conf")
    BY <1>2, <2>3, ThreadsAssumption DEF LogLock, Release, Return, NoJob
  <2> QED  BY <1>2, <2>1, <2>2, <2>3 DEF LogLock
<1>3. CASE LogEnd(t)
  BY <1>3, ThreadsAssumption DEF LogEnd, Release, Return, NoJob
<1>4. CASE LogStdout(t)
  BY <1>4 DEF LogStdout, Wrote, objVars, JobOK, JobFields
<1>5. CASE LogFile(t)
  BY <1>5 DEF LogFile, objVars, history, JobOK, JobFields
<1>6. CASE LogReopen(t) \/ LogStamp(t)
  BY <1>6 DEF LogReopen, LogStamp, history
<1>7. CASE LogWrite(t)
  BY <1>7 DEF LogWrite, JobOK, JobFields
<1>8. ASSUME NEW l \in Names, LogBegin(t, l)  PROVE Stage(t)' /\ Locking(t)'
  BY <1>8, ThreadsAssumption DEF LogBegin, Event, objVars, history, NoJob
<1> QED  BY <1>1, <1>2, <1>3, <1>4, <1>5, <1>6, <1>7, <1>8 DEF LogStep

(* The steps of the operations of users lead from one place to the next    *)
(* one, with the locks that belong there.                                  *)
LEMMA StageUser ==
    ASSUME Shape, Stages, Lockings, NEW t \in Threads, UserBegin(t) \/ UserContinue(t)
    PROVE  Stage(t)' /\ Locking(t)'
<1> USE DEF Shape, DomainsOK, JobsOK, LoadsOK, Go, Stages, Stage, Lockings, Locking,
            Writing, Owning, Adding, Loading
<1> JobOK(job[t]) /\ UserAppender \in Appenders  BY DEF Appenders
<1>1. CASE UserSection(t)  BY <1>1 DEF UserSection, history
<1>2. CASE DumpBegin(t)
  BY <1>2, ThreadsAssumption DEF DumpBegin, UserCall, history, JobOK, JobFields
<1>3. ASSUME NEW l \in Names, AddBegin(t, l)  PROVE Stage(t)' /\ Locking(t)'
  BY <1>3 DEF AddBegin, UserCall, objVars, NoJob
<1>4. ASSUME NEW l \in Names, NEW p, FmtBegin(t, l, p)  PROVE Stage(t)' /\ Locking(t)'
  BY <1>4 DEF FmtBegin, UserCall, objVars, history, NoJob
<1>5. CASE AddLock(t)
  <2>1. PICK b : b = (appender[job[t].ap].formatter # Null)  OBVIOUS
  <2>2. job' = [job EXCEPT ![t].has = b]  BY <1>5, <2>1 DEF AddLock
  <2> QED  BY <1>5, <2>2, ThreadsAssumption DEF AddLock, Free, history, JobOK, JobFields
<1>6. CASE AddEnd(t)  BY <1>6, ThreadsAssumption DEF AddEnd, Release, Return, history, NoJob
<1>7. CASE FmtLock(t)  BY <1>7, ThreadsAssumption DEF FmtLock, Free, history, JobOK
<1>8. CASE FmtEach(t)  BY <1>8 DEF FmtEach, history, JobOK, JobFields
<1>9. CASE FmtEnd(t)  BY <1>9, ThreadsAssumption DEF FmtEnd, Release, Return, history, NoJob
<1>10. CASE DumpOne(t)  BY <1>10 DEF DumpOne, objVars, history, JobOK, JobFields
<1>11. CASE DumpEnd(t)  BY <1>11, ThreadsAssumption DEF DumpEnd, history
<1> QED
  BY <1>1, <1>2, <1>3, <1>4, <1>5, <1>6, <1>7, <1>8, <1>9, <1>10, <1>11 DEF UserBegin, UserContinue

(* So do the steps of a load.                                              *)
LEMMA StageLoad ==
    ASSUME Shape, Stages, Lockings, NEW t \in Threads,
           LoadContinue(t) \/ \E doc \in Docs : LoadBegin(t, doc)
    PROVE  Stage(t)' /\ Locking(t)'
<1> USE DEF Shape, DomainsOK, JobsOK, LoadsOK, Go, Stages, Stage, Lockings, Locking,
            Writing, Owning, Adding, Loading
<1> JobOK(job[t]) /\ LoadOK(load[t])  OBVIOUS
<1>1. ASSUME NEW doc \in Docs, LoadBegin(t, doc)  PROVE Stage(t)' /\ Locking(t)'
  <2>1. PICK new : new = Definitions(doc)  OBVIOUS
  <2>2. PICK d : d = [old |-> defines, new |-> new, cur |-> Root, n |-> 0,
                      todo |-> DOMAIN new, gone |-> DOMAIN defines \ DOMAIN new]
    OBVIOUS
  <2>3. load' = [load EXCEPT ![t] = d]  BY <1>1, <2>1, <2>2 DEF LoadBegin
  <2>4. d.old = defines /\ d.new = new  BY <2>2
  <2>5. d.old # d.new /\ d # NoLoad  BY <1>1, <2>1, <2>4 DEF LoadBegin, NoLoad
  <2>6. load'[t] = d /\ t \in Loaders  BY <1>1, <2>3 DEF LoadBegin
  <2>7. \/ at'[t] = "log" /\ job'[t].ap = Null /\ job'[t].n = 0
        \/ at'[t] = "conf" /\ job'[t] = job[t]
    <3>1. PICK k : k = MaxEvents + loads'  OBVIOUS
    <3>2. PICK j : j = [NoJob EXCEPT !.lg = Root, !.ev = k]  OBVIOUS
    <3>3. j.ap = Null /\ j.n = 0  BY <3>2 DEF NoJob
    <3>4. \/ job' = [job EXCEPT ![t] = j] /\ Go(t, "log")
          \/ UNCHANGED job /\ Go(t, "conf")
      BY <1>1, <3>1, <3>2 DEF LoadBegin, Event
    <3> QED  BY <3>3, <3>4
  <2>8. UNCHANGED <<owner, mgr>> /\ at[t] = "idle"  BY <1>1 DEF LoadBegin, objVars
  <2> QED  BY <2>5, <2>6, <2>7, <2>8
<1>2. CASE ConfNew(t)  BY <1>2 DEF ConfNew, history, LoadOK, LoadFields, NoLoad
<1>3. CASE ConfSame(t)  BY <1>3 DEF ConfSame, objVars, history
<1>4. CASE ConfChanged(t)
  <2>1. load'[t] # NoLoad /\ load'[t].old = load[t].old /\ load'[t].new = load[t].new
    <3>1. PICK l : load' = [load EXCEPT ![t].cur = l, ![t].n = 0]  BY <1>4 DEF ConfChanged
    <3>2. load'[t].old = load[t].old /\ load'[t].new = load[t].new
      BY <3>1 DEF LoadOK, LoadFields
    <3>3. at[t] = "conf"  BY <1>4 DEF ConfChanged
    <3>4. load[t].old # load[t].new  BY <3>3
    <3>5. NoLoad.old = NoLoad.new  BY DEF NoLoad
    <3> QED  BY <3>2, <3>4, <3>5
  <2>2. job'[t].ap = Null /\ job'[t].n = 0  BY <1>4 DEF ConfChanged, JobOK, JobFields
  <2> QED  BY <1>4, <2>1, <2>2 DEF ConfChanged
<1>5. CASE ConfClear(t)  BY <1>5 DEF ConfClear, history
<1>6. CASE ConfMake(t)
  <2>1. PICK a \in Objects : a = Min(Unused)
    BY <1>6, MinIsIn, AppendersAssumption DEF ConfMake, Unused
  <2>2. load'[t] # NoLoad /\ load'[t].old = load[t].old /\ load'[t].new = load[t].new
    BY <1>6 DEF ConfMake, LoadOK, LoadFields, NoLoad
  <2>3. job'[t].ap = a /\ job'[t].n = 0  BY <1>6, <2>1 DEF ConfMake, JobOK, JobFields
  <2>4. a \in Appenders  BY DEF Appenders
  <2> QED  BY <1>6, <2>2, <2>3, <2>4 DEF ConfMake
<1>7. CASE ConfDone(t)  BY <1>7 DEF ConfDone, objVars, LoadOK, LoadFields, NoLoad
<1>8. CASE ConfGone(t)
  <2>1. load'[t] # NoLoad /\ load'[t].old = load[t].old /\ load'[t].new = load[t].new
    <3>1. PICK l : load' = [load EXCEPT ![t].cur = l, ![t].gone = @ \ {l}]  BY <1>8 DEF ConfGone
    <3>2. load'[t].old = load[t].old /\ load'[t].new = load[t].new
      BY <3>1 DEF LoadOK, LoadFields
    <3>3. at[t] = "conf"  BY <1>8 DEF ConfGone
    <3>4. load[t].old # load[t].new  BY <3>3
    <3>5. NoLoad.old = NoLoad.new  BY DEF NoLoad
    <3> QED  BY <3>2, <3>4, <3>5
  <2> QED  BY <1>8, <2>1 DEF ConfGone
<1>9. CASE Store(t)  BY <1>9 DEF Store, Announced, objVars
<1> QED  BY <1>1, <1>2, <1>3, <1>4, <1>5, <1>6, <1>7, <1>8, <1>9 DEF LoadContinue

(* A thread that is not touched stays where it is, with its locks.         *)
LEMMA OtherStage ==
    ASSUME Shape, Stages, Lockings, NEW u \in Threads, Untouched(u)
    PROVE  Stage(u)' /\ Locking(u)'
<1> JobOK(job[u])  BY DEF Shape, JobsOK
<1>1. Stage(u) /\ Locking(u)  BY DEF Stages, Lockings
<1> QED  BY <1>1 DEF Stage, Locking, Untouched, JobOK

(* The invariant of places and locks.                                      *)
LInv == Shape /\ Stages /\ Lockings

(* No thread has begun anything, and no lock is held.                      *)
LEMMA InitLInv == Init => LInv
<1> SUFFICES ASSUME Init PROVE LInv  OBVIOUS
<1>1. Stages  BY DEF Init, Stages, Stage, NoJob, Adding, Loading
<1>2. Lockings  BY ThreadsAssumption DEF Init, Lockings, Locking, Owning, Writing
<1> QED  BY <1>1, <1>2, InitShape DEF LInv

(* An event is made.                                                       *)
LEMMA LogBeginShape ==
    ASSUME Shape, NEW t \in Threads, NEW l \in Names, LogBegin(t, l)
    PROVE  Shape'
<1>1. \A k : JobOK([NoJob EXCEPT !.lg = l, !.ev = k])
  BY NothingOK DEF JobOK, JobFields
<1>2. JobsOK'  BY <1>1, JobStep DEF LogBegin, Event, Shape
<1>3. DomainsOK'  BY DEF LogBegin, objVars, history, Go, Shape, DomainsOK
<1> QED  BY <1>2, <1>3, ShapeFrame DEF LogBegin, objVars

(* A step of a thread.                                                     *)
LEMMA ThreadLInv ==
    ASSUME LInv, NEW t \in Threads, Begin(t) \/ Continue(t)
    PROVE  LInv' /\ \A u \in Threads \ {t} : Untouched(u)
<1> USE DEF LInv
<1>1. Shape'
  BY LogStepShape, LogBeginShape, UserShape, LoadShape DEF Begin, Continue
<1>2. Stage(t)' /\ Locking(t)'
  BY StageLog, StageUser, StageLoad DEF Begin, Continue
<1>3. \A u \in Threads \ {t} : Untouched(u)
  BY OthersLog, OthersUser, OthersLoad DEF Begin, Continue
<1>4. \A u \in Threads : Stage(u)' /\ Locking(u)'  BY <1>2, <1>3, OtherStage
<1>5. Stages' /\ Lockings'  BY <1>4 DEF Stages, Lockings
<1> QED  BY <1>1, <1>3, <1>5

(* LInv is inductive.                                                      *)
LEMMA NextLInv == LInv /\ [Next]_vars => LInv'
<1> SUFFICES ASSUME LInv, [Next]_vars PROVE LInv'  OBVIOUS
<1>1. CASE Tick \/ UNCHANGED vars
  <2>1. UNCHANGED <<objVars, defines, at, job, load, history>>  BY <1>1 DEF Tick, vars
  <2>2. UNCHANGED <<known, mgr, logger, owner, appender, defines, at, job, load, owed, done>>
    BY <2>1 DEF objVars, history
  <2>3. Shape'
    BY <2>2 DEF LInv, Shape, JobsOK, LoadsOK, LoggersOK, AppendersOK, DomainsOK
  <2>4. Stages' /\ Lockings'
    BY <2>2 DEF LInv, Stages, Stage, Lockings, Locking
  <2> QED  BY <2>3, <2>4 DEF LInv
<1>2. CASE \E t \in Threads : Begin(t) \/ Continue(t)  BY <1>2, ThreadLInv
<1> QED  BY <1>1, <1>2 DEF Next

(* A thread that waits holds no lock, but for log(), which goes on to the  *)
(* root logger, and toYamlString(), which holds the manager's.             *)
LEMMA LInvLocksInOrder == LInv => LocksInOrder
<1> SUFFICES ASSUME LInv, NEW t \in Threads, NEW held \in Held(t), NEW next \in Awaits(t)
             PROVE  Rank(held) < Rank(next)
  BY DEF LocksInOrder
<1> Locking(t) /\ JobOK(job[t]) /\ LoadOK(load[t])  BY DEF LInv, Lockings, Shape, JobsOK, LoadsOK
<1>1. Manager \notin Names  BY NamesAssumption DEF Manager
<1>2. CASE at[t] = "lock"
  <2>1. next = job[t].lg  BY <1>2 DEF Awaits
  <2>2. held \in Names /\ owner[held] = t  BY <1>2 DEF Held, Locking
  <2>3. job[t].lg = Root /\ held # Root  BY <1>2, <2>2 DEF Locking, Owning, Writing
  <2> QED  BY <1>1, <2>1, <2>2, <2>3, NamesAssumption DEF Rank
<1>3. CASE at[t] = "dump"
  <2>1. held = Manager  BY <1>3 DEF Held, Locking, Owning, Writing
  <2>2. job[t].todo # {} /\ next = Min(job[t].todo)  BY <1>3 DEF Awaits
  <2>3. next \in Names  BY <2>2, MinIsIn, NamesAssumption DEF JobOK
  <2> QED  BY <1>1, <2>1, <2>3 DEF Rank
<1>4. CASE at[t] \notin {"lock", "dump"}
  <2>1. at[t] \in {"addLock", "fmtLock", "confClear", "goneClear", "conf"}
    BY <1>4 DEF Awaits
  <2>2. Held(t) = {}  BY <2>1 DEF Held, Locking, Owning, Writing
  <2> QED  BY <2>2
<1> QED  BY <1>2, <1>3, <1>4

(* No deadlock: whoever holds a lock waits only for one further on in the  *)
(* order manager, logger, root logger.                                     *)
THEOREM LocksOrdered == Spec => []LocksInOrder
BY InitLInv, NextLInv, LInvLocksInOrder, PTL DEF Spec

-----------------------------------------------------------------------------
(* Delivery                                                                *)

(* How far log() is with an event: the first n appenders of the list, as   *)
(* it was when the lock was taken, have written.                           *)
Delivery(t) ==
    /\ at[t] \in Writing =>
        /\ owed[t] = List(t)
        /\ job[t].n <= Len(List(t))
        /\ done[t] \in Seq(Appenders) /\ Len(done[t]) = job[t].n
        /\ \A i \in 1..job[t].n : done[t][i] = List(t)[i]
    /\ at[t] \in {"reopen", "stamp", "write"} =>
        job[t].n < Len(List(t)) /\ job[t].ap = List(t)[job[t].n + 1]
    /\ at[t] \notin Writing => done[t] = << >>
Deliveries == \A t \in Threads : Delivery(t)

(* Only who holds the lock of a logger changes its list of appenders, and  *)
(* only addAppender() keeps the lock over several steps to do so.          *)
LEMMA ListKept ==
    ASSUME LInv, NEW t \in Threads, Begin(t) \/ Continue(t), NEW l \in Names,
           owner[l] \in Threads, owner[l] # t \/ at[t] # "add"
    PROVE  logger'[l].appenders = logger[l].appenders
<1> USE DEF LInv, Shape, LoggersOK, LoggerOK, LoggerFields
<1> ~Free(l)  BY ThreadsAssumption DEF Free
<1> LoggerOK(logger[l]) /\ JobOK(job[t])  BY DEF JobsOK
<1>1. CASE LogStep(t) \/ \E k \in Names : LogBegin(t, k)
  BY <1>1 DEF LogStep, LogLevel, LogLock, LogEnd, LogStdout, LogFile, LogReopen, LogStamp, LogWrite,
              LogBegin, objVars
<1>2. CASE UserSection(t)
  <2>1. CASE \E k \in Names : getLogger(k)  BY <2>1 DEF getLogger
  <2>2. CASE \E k \in Names : delAppender(k)  BY <2>2 DEF delAppender
  <2>3. CASE \E k \in Names : clearAppenders(k)
    BY <2>3 DEF clearAppenders, MayClear, Cleared
  <2>4. CASE \E k \in Names : SetLevel(k)  BY <2>4 DEF SetLevel
  <2>5. CASE \E p \in UserPatterns : AppenderSetFormatter(p)  BY <2>5 DEF AppenderSetFormatter
  <2> QED  BY <1>2, <2>1, <2>2, <2>3, <2>4, <2>5 DEF UserSection
<1>3. CASE AddEnd(t)
  <2>1. at[t] = "add" /\ owner[job[t].lg] = t
    BY <1>3 DEF AddEnd, Lockings, Locking, Owning
  <2> QED  BY <1>3, <2>1 DEF AddEnd
<1>4. CASE \/ DumpBegin(t)
           \/ \E k \in Names : AddBegin(t, k) \/ \E p \in UserPatterns : FmtBegin(t, k, p)
           \/ AddLock(t) \/ FmtEach(t) \/ FmtEnd(t) \/ DumpOne(t) \/ DumpEnd(t)
  BY <1>4 DEF DumpBegin, AddBegin, FmtBegin, AddLock, FmtEach, FmtEnd, DumpOne, DumpEnd, objVars
<1>5. CASE FmtLock(t)  BY <1>5 DEF FmtLock
<1>6. CASE \/ \E doc \in Docs : LoadBegin(t, doc)
           \/ ConfNew(t) \/ ConfSame(t) \/ ConfMake(t) \/ ConfDone(t) \/ Store(t)
  BY <1>6 DEF LoadBegin, ConfNew, ConfSame, ConfMake, ConfDone, Store, objVars
<1>7. CASE ConfChanged(t)
  <2>1. PICK k, v : logger' = [logger EXCEPT ![k].level = v]  BY <1>7 DEF ConfChanged
  <2> QED  BY <2>1
<1>8. CASE ConfGone(t)
  <2>1. PICK k, v : logger' = [logger EXCEPT ![k].level = v]  BY <1>8 DEF ConfGone
  <2> QED  BY <2>1
<1>9. CASE ConfClear(t)  BY <1>9 DEF ConfClear, Cleared
<1> QED
  BY <1>1, <1>2, <1>3, <1>4, <1>5, <1>6, <1>7, <1>8, <1>9
     DEF Begin, Continue, UserBegin, UserContinue, LoadContinue

(* A thread that another thread's step does not touch is as far as before. *)
LEMMA OtherDelivery ==
    ASSUME LInv, NEW t \in Threads, Begin(t) \/ Continue(t),
           NEW u \in Threads \ {t}, Untouched(u), Delivery(u)
    PROVE  Delivery(u)'
<1>1. CASE at[u] \in Writing
  <2>1. job[u].lg \in Names /\ owner[job[u].lg] = u
    BY <1>1 DEF LInv, Shape, JobsOK, JobOK, Lockings, Locking, Owning
  <2>2. logger'[job[u].lg].appenders = logger[job[u].lg].appenders  BY <2>1, ListKept
  <2>3. List(u)' = List(u)  BY <2>2 DEF List, Untouched
  <2> QED  BY <1>1, <2>3 DEF Delivery, Untouched
<1>2. CASE at[u] \notin Writing
  BY <1>2 DEF Delivery, Untouched, Writing
<1> QED  BY <1>1, <1>2

(* The list that a thread is writing to, and the next appender in it.      *)
LEMMA ListType ==
    ASSUME LInv, NEW t \in Threads
    PROVE  List(t) \in Seq(Appenders) /\ job[t].n \in Nat /\ Len(List(t)) \in Nat
BY DEF LInv, Shape, JobsOK, JobOK, LoggersOK, LoggerOK, List

(* An appender more has written.                                           *)
LEMMA OneMore ==
    ASSUME NEW s \in Seq(Appenders), NEW d \in Seq(Appenders), NEW n \in Nat,
           Len(d) = n, n < Len(s), \A i \in 1..n : d[i] = s[i],
           NEW e, e = Append(d, s[n + 1])
    PROVE  /\ e \in Seq(Appenders) /\ Len(e) = n + 1 /\ n + 1 <= Len(s)
           /\ \A i \in 1..(n + 1) : e[i] = s[i]
<1>1. Len(s) \in Nat /\ s[n + 1] \in Appenders  OBVIOUS
<1> QED  BY <1>1

(* log() writes with the appenders of the list one after the other.        *)
LEMMA DeliveryLog ==
    ASSUME LInv, LInv', NEW t \in Threads, Delivery(t), LogStep(t)
    PROVE  Delivery(t)'
<1> USE DEF LInv, Shape, DomainsOK, JobsOK, Go, Writing
<1> JobOK(job[t]) /\ LoggersOK  OBVIOUS
<1> PICK s : s = List(t)  OBVIOUS
<1> s \in Seq(Appenders) /\ job[t].n \in Nat /\ Len(s) \in Nat  BY ListType
<1>1. CASE LogLevel(t)
  <2>1. at'[t] \notin Writing /\ done'[t] = << >>
    BY <1>1 DEF LogLevel, Return, history, Delivery
  <2> QED  BY <2>1 DEF Delivery
<1>2. CASE LogLock(t)
  <2>1. done[t] = << >> /\ job[t].n = 0 /\ UNCHANGED <<logger, done>>
    BY <1>2 DEF LogLock, Delivery, Stages, Stage
  <2>2. CASE at'[t] = "each"
    <3>1. job' = job /\ owed'[t] = s  BY <1>2, <2>2 DEF LogLock, Return
    <3>2. List(t)' = s  BY <2>1, <3>1 DEF List
    <3>3. << >> \in Seq(Appenders) /\ Len(<< >>) = 0  OBVIOUS
    <3> QED  BY <2>1, <2>2, <3>1, <3>2, <3>3 DEF Delivery
  <2>3. CASE at'[t] # "each"
    <3>1. at'[t] \notin Writing  BY <1>2, <2>3 DEF LogLock, Return
    <3> QED  BY <2>1, <3>1 DEF Delivery
  <2> QED  BY <2>2, <2>3
<1>3. CASE LogEnd(t)
  <2>1. at'[t] \notin Writing /\ done'[t] = << >>
    BY <1>3 DEF LogEnd, Return
  <2> QED  BY <2>1 DEF Delivery
<1>4. CASE LogStdout(t)
  <2>1. at'[t] = "each" /\ owed'[t] = s /\ done[t] \in Seq(Appenders) /\ Len(done[t]) = job[t].n
        /\ job[t].n < Len(s) /\ \A i \in 1..job[t].n : done[t][i] = s[i]
    BY <1>4 DEF LogStdout, Delivery
  <2>2. done'[t] = Append(done[t], s[job[t].n + 1])  BY <1>4 DEF LogStdout, Wrote
  <2>3. job'[t].n = job[t].n + 1 /\ job'[t].lg = job[t].lg
    BY <1>4 DEF LogStdout, Wrote, JobOK, JobFields
  <2>4. List(t)' = s  BY <1>4, <2>3 DEF List, LogStdout, objVars
  <2>5. /\ done'[t] \in Seq(Appenders) /\ Len(done'[t]) = job[t].n + 1
        /\ job[t].n + 1 <= Len(s) /\ \A i \in 1..(job[t].n + 1) : done'[t][i] = s[i]
    BY <2>1, <2>2, OneMore
  <2> QED  BY <2>1, <2>3, <2>4, <2>5 DEF Delivery
<1>5. CASE LogFile(t)
  <2>1. at'[t] \in {"reopen", "stamp", "write"} /\ job[t].n < Len(s)  BY <1>5 DEF LogFile
  <2>2. job'[t].n = job[t].n /\ job'[t].lg = job[t].lg /\ job'[t].ap = s[job[t].n + 1]
    BY <1>5 DEF LogFile, JobOK, JobFields
  <2>3. List(t)' = s /\ owed'[t] = owed[t] /\ done'[t] = done[t]
    BY <1>5, <2>2 DEF LogFile, objVars, history, List
  <2>4. at[t] = "each"  BY <1>5 DEF LogFile
  <2> QED  BY <2>1, <2>2, <2>3, <2>4 DEF Delivery
<1>6. CASE LogReopen(t) \/ LogStamp(t)
  <2>1. /\ at[t] \in {"reopen", "stamp"} /\ at'[t] \in {"stamp", "write"}
        /\ UNCHANGED <<job, logger, owed, done>>
    BY <1>6 DEF LogReopen, LogStamp, history
  <2>2. List(t)' = s  BY <2>1 DEF List
  <2> QED  BY <2>1, <2>2 DEF Delivery
<1>7. CASE LogWrite(t)
  <2>1. at'[t] = "each" /\ owed'[t] = s /\ done[t] \in Seq(Appenders) /\ Len(done[t]) = job[t].n
        /\ job[t].n < Len(s) /\ (\A i \in 1..job[t].n : done[t][i] = s[i])
        /\ job[t].ap = s[job[t].n + 1]
    BY <1>7 DEF LogWrite, Delivery
  <2>2. done'[t] = Append(done[t], s[job[t].n + 1])  BY <1>7, <2>1 DEF LogWrite
  <2>3. job'[t].n = job[t].n + 1 /\ job'[t].lg = job[t].lg
    BY <1>7 DEF LogWrite, JobOK, JobFields
  <2>4. List(t)' = s  BY <1>7, <2>3 DEF List, LogWrite
  <2>5. /\ done'[t] \in Seq(Appenders) /\ Len(done'[t]) = job[t].n + 1
        /\ job[t].n + 1 <= Len(s) /\ \A i \in 1..(job[t].n + 1) : done'[t][i] = s[i]
    BY <2>1, <2>2, OneMore
  <2> QED  BY <2>1, <2>3, <2>4, <2>5 DEF Delivery
<1> QED  BY <1>1, <1>2, <1>3, <1>4, <1>5, <1>6, <1>7 DEF LogStep

(* A thread that is not in log() neither owes nor has done anything there. *)
LEMMA OutsideLog ==
    ASSUME LInv, NEW t \in Threads, Begin(t) \/ Continue(t), ~LogStep(t)
    PROVE  at[t] \notin Writing /\ at'[t] \notin Writing /\ done' = done
<1> USE DEF LInv, Shape, DomainsOK, Go, Writing
<1>1. CASE UserSection(t)  BY <1>1 DEF UserSection, UserCall, history
<1>2. CASE UserBegin(t) /\ ~UserSection(t)
  BY <1>2 DEF UserBegin, DumpBegin, AddBegin, FmtBegin, UserCall, history
<1>3. CASE UserContinue(t)
  BY <1>3 DEF UserContinue, AddLock, AddEnd, FmtLock, FmtEach, FmtEnd, DumpOne, DumpEnd, Return,
              history
<1>4. CASE \E l \in Names : LogBegin(t, l)  BY <1>4 DEF LogBegin, history
<1>5. CASE \E doc \in Docs : LoadBegin(t, doc)
  BY <1>5 DEF LoadBegin, history
<1>6. CASE LoadContinue(t)
  BY <1>6 DEF LoadContinue, ConfNew, ConfSame, ConfChanged, ConfClear, ConfMake, ConfDone, ConfGone,
              Store, Announced, history
<1> QED  BY <1>1, <1>2, <1>3, <1>4, <1>5, <1>6 DEF Begin, Continue

(* Deliveries is inductive, given LInv.                                    *)
LEMMA NextDeliveries == LInv /\ LInv' /\ Deliveries /\ [Next]_vars => Deliveries'
<1> SUFFICES ASSUME LInv, LInv', Deliveries, [Next]_vars PROVE Deliveries'  OBVIOUS
<1>1. CASE Tick \/ UNCHANGED vars
  <2>1. UNCHANGED <<logger, at, job, owed, done>>
    BY <1>1 DEF Tick, vars, objVars, history
  <2> QED  BY <2>1 DEF Deliveries, Delivery, List
<1>2. ASSUME NEW t \in Threads, Begin(t) \/ Continue(t)  PROVE Deliveries'
  <2>1. \A u \in Threads \ {t} : Untouched(u)  BY <1>2, ThreadLInv
  <2>2. \A u \in Threads \ {t} : Delivery(u)'
    BY <1>2, <2>1, OtherDelivery DEF Deliveries
  <2>3. Delivery(t)'
    <3>1. Delivery(t)  BY DEF Deliveries
    <3>2. CASE LogStep(t)  BY <3>1, <3>2, DeliveryLog
    <3>3. CASE ~LogStep(t)
      <4>1. at[t] \notin Writing /\ at'[t] \notin Writing /\ done' = done
        BY <1>2, <3>3, OutsideLog
      <4> QED  BY <3>1, <4>1 DEF Delivery, Writing
    <3> QED  BY <3>2, <3>3
  <2> QED  BY <2>2, <2>3 DEF Deliveries
<1> QED  BY <1>1, <1>2 DEF Next

(* log() returns from its loop when all appenders have written.            *)
LEMMA DeliverStep ==
    LInv /\ Deliveries /\ [Next]_vars =>
        [\A t \in Threads :
            at[t] = "each" /\ at'[t] \notin {"each", "reopen", "stamp", "write"} => done[t] = owed[t]]_vars
<1> SUFFICES ASSUME LInv, Deliveries, Next, NEW u \in Threads,
                    at[u] = "each", at'[u] \notin {"each", "reopen", "stamp", "write"}
             PROVE  done[u] = owed[u]
  OBVIOUS
<1>1. PICK t \in Threads : Begin(t) \/ Continue(t)  BY DEF Next, Tick
<1>2. u = t  BY <1>1, ThreadLInv DEF Untouched
<1>3. LogStep(u)  BY <1>1, <1>2, OutsideLog DEF Writing
<1>4. LogEnd(u)
  BY <1>3 DEF LogStep, LogLevel, LogLock, LogStdout, LogFile, LogReopen, LogStamp, LogWrite, Go,
              LInv, Shape, DomainsOK
<1>5. Delivery(u)  BY DEF Deliveries
<1>6. List(u) \in Seq(Appenders) /\ job[u].n \in Nat /\ Len(List(u)) \in Nat  BY ListType
<1>7. /\ owed[u] = List(u) /\ done[u] \in Seq(Appenders)
      /\ Len(done[u]) = Len(List(u)) /\ \A i \in 1..Len(List(u)) : done[u][i] = List(u)[i]
  BY <1>4, <1>5, <1>6 DEF LogEnd, Delivery, Writing
<1> QED  BY <1>6, <1>7, SeqEqual

(* Every event is written exactly once by each of the appenders that the   *)
(* logger had when its lock was taken, whatever other threads do meanwhile *)
(* (log.cc:320 holds the lock over all of them).                           *)
THEOREM EventsDelivered == Spec => DeliveredOnce
<1>1. Init => Deliveries  BY DEF Init, Deliveries, Delivery, Writing
<1> QED
  BY <1>1, InitLInv, NextLInv, NextDeliveries, DeliverStep, PTL DEF Spec, DeliveredOnce

-----------------------------------------------------------------------------
(* Appenders that belong to one logger                                     *)

(* Each of some appenders is in the list of one logger, or about to be put *)
(* in one by one thread.  For the user's appender that takes users who     *)
(* take it off before they attach it again.                                *)
In(a, l) == a \in Range(logger[l].appenders)
SingleIn(A) ==
    /\ \A a \in A : \A l, m \in Names : In(a, l) /\ In(a, m) => l = m
    /\ \A t \in Threads : at[t] \in Adding /\ job[t].ap \in A =>
        /\ \A l \in Names : ~In(job[t].ap, l)
        /\ \A u \in Threads \ {t} : job[u].ap # job[t].ap
    /\ UserAppender \in A /\ ~attached =>
        /\ \A l \in Names : ~In(UserAppender, l)
        /\ \A t \in Threads : job[t].ap # UserAppender

(* Only addAppender() puts an appender in a list; one may be taken off, or *)
(* all of them.                                                            *)
LEMMA ListChange ==
    ASSUME LInv, NEW t \in Threads, Begin(t) \/ Continue(t), ~AddEnd(t), NEW l \in Names
    PROVE  \/ logger'[l].appenders = logger[l].appenders
           \/ Cleared(l) /\ logger'[l].appenders = << >>
           \/ logger'[l].appenders = RemoveFirst(logger[l].appenders, UserAppender)
<1> USE DEF LInv, Shape, LoggersOK, LoggerOK, LoggerFields
<1> LoggerOK(logger[l])  OBVIOUS
<1>1. CASE LogStep(t) \/ \E k \in Names : LogBegin(t, k)
  BY <1>1 DEF LogStep, LogLevel, LogLock, LogEnd, LogStdout, LogFile, LogReopen, LogStamp, LogWrite,
              LogBegin, objVars
<1>2. CASE UserSection(t)
  <2>1. CASE \E k \in Names : getLogger(k)  BY <2>1 DEF getLogger
  <2>2. CASE \E k \in Names : delAppender(k)
    <3>1. PICK k \in Names : delAppender(k)  BY <2>2
    <3>2. CASE l # k  BY <3>1, <3>2 DEF delAppender
    <3>3. CASE l = k  BY <3>1, <3>3 DEF delAppender
    <3> QED  BY <3>2, <3>3
  <2>3. CASE \E k \in Names : clearAppenders(k)
    BY <2>3 DEF clearAppenders, Cleared
  <2>4. CASE \E k \in Names : SetLevel(k)  BY <2>4 DEF SetLevel
  <2>5. CASE \E p \in UserPatterns : AppenderSetFormatter(p)  BY <2>5 DEF AppenderSetFormatter
  <2> QED  BY <1>2, <2>1, <2>2, <2>3, <2>4, <2>5 DEF UserSection
<1>4. CASE \/ DumpBegin(t)
           \/ \E k \in Names : AddBegin(t, k) \/ \E p \in UserPatterns : FmtBegin(t, k, p)
           \/ AddLock(t) \/ FmtEach(t) \/ FmtEnd(t) \/ DumpOne(t) \/ DumpEnd(t)
  BY <1>4 DEF DumpBegin, AddBegin, FmtBegin, AddLock, FmtEach, FmtEnd, DumpOne, DumpEnd, objVars
<1>5. CASE FmtLock(t)  BY <1>5 DEF FmtLock
<1>6. CASE \/ \E doc \in Docs : LoadBegin(t, doc)
           \/ ConfNew(t) \/ ConfSame(t) \/ ConfMake(t) \/ ConfDone(t) \/ Store(t)
  BY <1>6 DEF LoadBegin, ConfNew, ConfSame, ConfMake, ConfDone, Store, objVars
<1>7. CASE ConfChanged(t)
  <2>1. PICK k, v : logger' = [logger EXCEPT ![k].level = v]  BY <1>7 DEF ConfChanged
  <2> QED  BY <2>1
<1>8. CASE ConfGone(t)
  <2>1. PICK k, v : logger' = [logger EXCEPT ![k].level = v]  BY <1>8 DEF ConfGone
  <2> QED  BY <2>1
<1>9. CASE ConfClear(t)
  <2>1. PICK k : Cleared(k)  BY <1>9 DEF ConfClear
  <2> QED  BY <2>1 DEF Cleared
<1> QED
  BY <1>1, <1>2, <1>4, <1>5, <1>6, <1>7, <1>8, <1>9
     DEF Begin, Continue, UserBegin, UserContinue, LoadContinue

(* In particular a list grows by addAppender() only.                       *)
LEMMA ListsShrink ==
    ASSUME LInv, NEW t \in Threads, Begin(t) \/ Continue(t), ~AddEnd(t),
           NEW l \in Names, NEW a, In(a, l)'
    PROVE  In(a, l)
<1>1. LoggerOK(logger[l])  BY DEF LInv, Shape, LoggersOK
<1>2. Range(logger'[l].appenders) \subseteq Range(logger[l].appenders)
  <2>1. Range(<< >>) = {}  BY DEF Range
  <2> QED  BY <1>1, <2>1, ListChange, RemoveFirstShrinks DEF LoggerOK
<1> QED  BY <1>2 DEF In

(* A thread takes up an appender when it begins to attach one and when it  *)
(* is about to write to a file.                                            *)
TakesUp(t) == \/ \E l \in Names : AddBegin(t, l)
              \/ ConfMake(t) \/ LogFile(t)

(* A thread that takes up no appender keeps the one it has, or lets go of  *)
(* it.                                                                     *)
LEMMA NoneTakenUp ==
    ASSUME LInv, NEW t \in Threads, Begin(t) \/ Continue(t), ~TakesUp(t)
    PROVE  /\ job'[t].ap = job[t].ap \/ job'[t].ap = Null
           /\ at'[t] \in Adding => at[t] \in Adding /\ job'[t].ap = job[t].ap
           /\ attached' = attached
<1> USE DEF LInv, Shape, DomainsOK, JobsOK, Go, Adding
<1> JobOK(job[t])  OBVIOUS
<1>1. CASE LogLevel(t)  BY <1>1 DEF LogLevel, Return, NoJob, history
<1>2. CASE LogLock(t)  BY <1>2 DEF LogLock, Return, NoJob, JobOK, JobFields
<1>3. CASE LogEnd(t)  BY <1>3 DEF LogEnd, Return, NoJob
<1>4. CASE LogStdout(t)  BY <1>4 DEF LogStdout, Wrote, JobOK, JobFields
<1>5. CASE LogReopen(t) \/ LogStamp(t)  BY <1>5 DEF LogReopen, LogStamp, history
<1>6. CASE LogWrite(t)  BY <1>6 DEF LogWrite, JobOK, JobFields
<1>7. ASSUME NEW l \in Names, LogBegin(t, l)
      PROVE  job'[t].ap = Null /\ at'[t] \notin Adding /\ attached' = attached
  BY <1>7 DEF LogBegin, Event, NoJob, history
<1>8. CASE UserSection(t)  BY <1>8 DEF UserSection, history
<1>9. CASE DumpBegin(t)  BY <1>9 DEF DumpBegin, JobOK, JobFields, history
<1>10. ASSUME NEW l \in Names, NEW p, FmtBegin(t, l, p)
       PROVE  job'[t].ap = Null /\ at'[t] \notin Adding /\ attached' = attached
  BY <1>10 DEF FmtBegin, NoJob, history
<1>11. CASE AddLock(t)
  <2>1. PICK b : b = (appender[job[t].ap].formatter # Null)  OBVIOUS
  <2>2. job' = [job EXCEPT ![t].has = b]  BY <1>11, <2>1 DEF AddLock
  <2> QED  BY <1>11, <2>2 DEF AddLock, history, JobOK, JobFields
<1>12. CASE AddEnd(t)  BY <1>12 DEF AddEnd, Return, NoJob, history
<1>13. CASE FmtLock(t)  BY <1>13 DEF FmtLock, history
<1>14. CASE FmtEach(t)  BY <1>14 DEF FmtEach, JobOK, JobFields, history
<1>15. CASE FmtEnd(t)  BY <1>15 DEF FmtEnd, Return, NoJob, history
<1>16. CASE DumpOne(t)  BY <1>16 DEF DumpOne, JobOK, JobFields, history
<1>17. CASE DumpEnd(t)  BY <1>17 DEF DumpEnd, history
<1>18. ASSUME NEW doc \in Docs, LoadBegin(t, doc)
       PROVE  /\ job'[t].ap = job[t].ap \/ job'[t].ap = Null
              /\ at'[t] \notin Adding /\ attached' = attached
  BY <1>18, ZenonT(60) DEF LoadBegin, Event, NoJob, history
<1>19. CASE ConfNew(t) \/ ConfSame(t) \/ ConfClear(t) \/ ConfDone(t) \/ ConfGone(t) \/ Store(t)
  BY <1>19 DEF ConfNew, ConfSame, ConfClear, ConfDone, ConfGone, Store, history
<1>20. CASE ConfChanged(t)  BY <1>20 DEF ConfChanged, JobOK, JobFields, history
<1> QED
  BY <1>1, <1>2, <1>3, <1>4, <1>5, <1>6, <1>7, <1>8, <1>9, <1>10, <1>11, <1>12, <1>13, <1>14,
     <1>15, <1>16, <1>17, <1>18, <1>19, <1>20
     DEF Begin, Continue, UserBegin, UserContinue, LoadContinue, LogStep, TakesUp

(* Appenders are taken off, and no thread takes one up.                    *)
LEMMA SingleQuiet ==
    ASSUME LInv, LInv', NEW A \in SUBSET Appenders, SingleIn(A),
           NEW t \in Threads, Begin(t) \/ Continue(t), ~TakesUp(t), ~AddEnd(t)
    PROVE  SingleIn(A)'
<1>1. \A l \in Names : \A a : In(a, l)' => In(a, l)  BY ListsShrink
<1>2. /\ job'[t].ap = job[t].ap \/ job'[t].ap = Null
      /\ at'[t] \in Adding => at[t] \in Adding /\ job'[t].ap = job[t].ap
      /\ attached' = attached
  BY NoneTakenUp
<1>3. \A u \in Threads \ {t} : at'[u] = at[u] /\ job'[u] = job[u]
  BY ThreadLInv DEF Untouched
<1>4. \A u \in Threads : job'[u].ap = job[u].ap \/ job'[u].ap = Null  BY <1>2, <1>3
<1>5. \A u \in Threads : at'[u] \in Adding => at[u] \in Adding /\ job'[u].ap = job[u].ap
  BY <1>2, <1>3
<1>6. \A u \in Threads : at'[u] \in Adding => job'[u].ap # Null
  BY AppendersAssumption DEF LInv, Stages, Stage
<1>7. UserAppender # Null  BY AppendersAssumption DEF Appenders
<1> QED  BY <1>1, <1>2, <1>4, <1>5, <1>6, <1>7 DEF SingleIn

(* A thread takes up an appender that no other is about to attach.         *)
LEMMA SingleTaken ==
    ASSUME LInv, NEW A \in SUBSET Appenders, UserAppender \in A => Sharing # "shared",
           SingleIn(A), NEW t \in Threads, Begin(t) \/ Continue(t), TakesUp(t)
    PROVE  SingleIn(A)'
<1> USE DEF LInv, Shape, DomainsOK, JobsOK, Go, Adding
<1> JobOK(job[t])  OBVIOUS
<1>1. \A u \in Threads \ {t} : at'[u] = at[u] /\ job'[u] = job[u]
  BY ThreadLInv DEF Untouched
<1>2. CASE LogFile(t)
  <2>1. PICK a : a = List(t)[job[t].n + 1]  OBVIOUS
  <2>2. In(a, job[t].lg)
    <3>1. List(t) \in Seq(Appenders) /\ job[t].n \in Nat /\ job[t].n < Len(List(t))
      BY <1>2, ListType DEF LogFile
    <3>2. job[t].n + 1 \in DOMAIN List(t)  BY <3>1
    <3> QED  BY <2>1, <3>2 DEF In, Range, List
  <2>3. job'[t].ap = a /\ at'[t] \notin Adding  BY <1>2, <2>1 DEF LogFile, JobOK, JobFields
  <2>4. UNCHANGED <<logger, attached>>  BY <1>2 DEF LogFile, objVars, history
  <2>5. \A k \in Names : \A b : In(b, k)' <=> In(b, k)  BY <2>4 DEF In
  <2>6. job[t].lg \in Names  BY DEF JobOK
  <2> QED  BY <1>1, <2>2, <2>3, <2>4, <2>5, <2>6 DEF SingleIn
<1>3. ASSUME NEW l \in Names, AddBegin(t, l)  PROVE SingleIn(A)'
  <2>1. UserAppender \in A => \A k \in Names : ~In(UserAppender, k)
    BY <1>3, SharingAssumption DEF AddBegin, MayAttach, Attached, SingleIn, In
  <2>2. job'[t].ap = UserAppender /\ attached' = TRUE  BY <1>3 DEF AddBegin, NoJob
  <2>3. \A u \in Threads : job[u].ap # UserAppender  BY <1>3 DEF AddBegin
  <2>4. UNCHANGED logger  BY <1>3 DEF AddBegin, objVars
  <2>5. \A k \in Names : \A b : In(b, k)' <=> In(b, k)  BY <2>4 DEF In
  <2> QED  BY <1>1, <2>1, <2>2, <2>3, <2>5 DEF SingleIn
<1>4. CASE ConfMake(t)
  <2>1. PICK a \in Unused : a = Min(Unused)
    BY <1>4, MinIsIn, AppendersAssumption DEF ConfMake, Unused
  <2>2. (\A k \in Names : ~In(a, k)) /\ (\A u \in Threads : job[u].ap # a)
    BY <2>1 DEF Unused, Attached, In
  <2>3. job'[t].ap = a  BY <1>4, <2>1 DEF ConfMake, JobOK, JobFields
  <2>4. UNCHANGED <<logger, attached>>  BY <1>4 DEF ConfMake, history
  <2>5. \A k \in Names : \A b : In(b, k)' <=> In(b, k)  BY <2>4 DEF In
  <2>6. a # UserAppender  BY AppendersAssumption DEF Unused
  <2> QED  BY <1>1, <2>2, <2>3, <2>4, <2>5, <2>6 DEF SingleIn
<1> QED  BY <1>2, <1>3, <1>4 DEF TakesUp

(* What addAppender() does to the lists.                                   *)
LEMMA AddEndLists ==
    ASSUME LInv, NEW t \in Threads, AddEnd(t), NEW k \in Names, NEW a
    PROVE  In(a, k)' <=> In(a, k) \/ (k = job[t].lg /\ a = job[t].ap)
<1> USE DEF LInv, Shape, JobsOK, LoggersOK
<1> job[t].lg \in Names /\ LoggerOK(logger[k])  BY DEF JobOK
<1>1. PICK s : s = logger[k].appenders  OBVIOUS
<1>2. s \in Seq(Appenders)  BY <1>1 DEF LoggerOK
<1>3. CASE k # job[t].lg  BY <1>3 DEF AddEnd, In
<1>4. CASE k = job[t].lg
  <2>1. logger'[k].appenders = Append(s, job[t].ap)
    BY <1>1, <1>4 DEF AddEnd, LoggerOK, LoggerFields
  <2>2. Range(Append(s, job[t].ap)) = Range(s) \cup {job[t].ap}  BY <1>2, AppendElements
  <2> QED  BY <1>1, <1>4, <2>1, <2>2 DEF In
<1> QED  BY <1>3, <1>4

(* addAppender() puts the appender in one list.                            *)
LEMMA SingleAdded ==
    ASSUME LInv, NEW A \in SUBSET Appenders, SingleIn(A), NEW t \in Threads, AddEnd(t)
    PROVE  SingleIn(A)'
<1> USE DEF LInv, Shape, DomainsOK, JobsOK, Go, Adding
<1>1. \A u \in Threads \ {t} : at'[u] = at[u] /\ job'[u] = job[u]
  BY ThreadLInv DEF Untouched, Continue, UserContinue
<1>2. at[t] = "add" /\ at'[t] \notin Adding /\ job'[t].ap = Null /\ attached' = attached
  BY DEF AddEnd, Return, NoJob, history
<1>3. \A k \in Names : \A a : In(a, k)' <=> In(a, k) \/ (k = job[t].lg /\ a = job[t].ap)
  BY AddEndLists
<1>4. job[t].ap \in A =>
        (\A k \in Names : ~In(job[t].ap, k)) /\ \A u \in Threads \ {t} : job[u].ap # job[t].ap
  BY <1>2 DEF SingleIn
<1>5. UserAppender # Null  BY AppendersAssumption DEF Appenders
<1>6. \A u \in Threads : at[u] \in Adding => job[u].ap # Null
  BY AppendersAssumption DEF Stages, Stage
<1>7. (\A u \in Threads : at'[u] \in Adding => u # t /\ at[u] \in Adding) /\ job[t].lg \in Names
  BY <1>1, <1>2 DEF JobOK
<1>8. \A u \in Threads : job'[u].ap = job[u].ap \/ job'[u].ap = Null  BY <1>1, <1>2
<1>9. \A u \in Threads : at'[u] \in Adding =>
        /\ job'[u].ap = job[u].ap /\ job[u].ap # Null
        /\ job[u].ap \in A => job[u].ap # job[t].ap
  BY <1>1, <1>4, <1>6, <1>7
<1> HIDE DEF Adding
<1>10. \A a \in A : \A l, m \in Names : In(a, l)' /\ In(a, m)' => l = m
  BY <1>3, <1>4 DEF SingleIn
<1>11. ASSUME NEW u \in Threads, at'[u] \in Adding, job'[u].ap \in A
       PROVE  (\A l \in Names : ~In(job[u].ap, l))' /\ \A v \in Threads \ {u} : job'[v].ap # job'[u].ap
  <2>1. PICK a : a = job[u].ap  OBVIOUS
  <2>2. \A l \in Names : ~In(a, l)'  BY <1>3, <1>7, <1>9, <1>11, <2>1 DEF SingleIn
  <2>3. job'[u].ap = a  BY <1>9, <1>11, <2>1
  <2>4. \A v \in Threads \ {u} : job'[v].ap # a
    BY <1>7, <1>8, <1>9, <1>11, <2>1 DEF SingleIn
  <2> QED  BY <2>2, <2>3, <2>4 DEF In
<1>12. UserAppender \in A /\ ~attached' => (\A l \in Names : ~In(UserAppender, l)')
                     /\ \A u \in Threads : job'[u].ap # UserAppender
  BY <1>2, <1>3, <1>5, <1>8 DEF SingleIn
<1> QED  BY <1>10, <1>11, <1>12 DEF SingleIn

(* Every step keeps the appenders apart.                                   *)
LEMMA NextSingleIn ==
    ASSUME LInv, LInv', NEW A \in SUBSET Appenders, UserAppender \in A => Sharing # "shared",
           SingleIn(A), [Next]_vars
    PROVE  SingleIn(A)'
<1>1. CASE Tick \/ UNCHANGED vars
  <2>1. UNCHANGED <<logger, at, job, attached>>  BY <1>1 DEF Tick, vars, objVars, history
  <2> QED  BY <2>1 DEF SingleIn, In
<1>2. CASE \E t \in Threads : Begin(t) \/ Continue(t)
  BY <1>2, SingleQuiet, SingleTaken, SingleAdded
<1> QED  BY <1>1, <1>2 DEF Next

(* At the beginning only the root logger has an appender.                  *)
LEMMA InitSingleIn == ASSUME NEW A, Init PROVE SingleIn(A)
<1>1. \A l \in Names : \A a : In(a, l) => l = Root /\ a = RootAppender
  BY DEF Init, In, Range
<1>2. \A t \in Threads : at[t] = "idle" /\ job[t].ap = Null  BY DEF Init, NoJob
<1>3. UserAppender # Null  BY AppendersAssumption DEF Appenders
<1> QED  BY <1>1, <1>2, <1>3, AppendersAssumption DEF SingleIn, Adding

(* All appenders, and those that the listener makes.                       *)
Single ==
    /\ \A a \in Appenders : \A l, m \in Names : In(a, l) /\ In(a, m) => l = m
    /\ \A t \in Threads : at[t] \in Adding =>
        /\ \A l \in Names : ~In(job[t].ap, l)
        /\ \A u \in Threads \ {t} : job[u].ap # job[t].ap
    /\ ~attached =>
        /\ \A l \in Names : ~In(UserAppender, l)
        /\ \A t \in Threads : job[t].ap # UserAppender
ObjectsSingle == SingleIn(Objects)

(* Whoever attaches an appender attaches one of them all.                  *)
LEMMA SingleAll == ASSUME LInv PROVE Single <=> SingleIn(Appenders)
<1>1. \A t \in Threads : at[t] \in Adding => job[t].ap \in Appenders  BY DEF LInv, Stages, Stage
<1>2. UserAppender \in Appenders  BY DEF Appenders
<1> QED  BY <1>1, <1>2 DEF Single, SingleIn

(* Single and ObjectsSingle are inductive, given LInv.                     *)
LEMMA NextSingle ==
    ASSUME Sharing # "shared"
    PROVE  LInv /\ LInv' /\ Single /\ [Next]_vars => Single'
<1> SUFFICES ASSUME LInv, LInv', Single, [Next]_vars PROVE Single'  OBVIOUS
<1>1. SingleIn(Appenders)'  BY SingleAll, NextSingleIn
<1>2. (Single <=> SingleIn(Appenders))'  BY SingleAll, PTL
<1> QED  BY <1>1, <1>2

(* Both hold at the beginning.                                             *)
LEMMA InitSingle == Init => Single
BY InitSingleIn, InitLInv, SingleAll

(* The listener takes only objects that nobody uses.                       *)
LEMMA NextObjectsSingle == LInv /\ LInv' /\ ObjectsSingle /\ [Next]_vars => ObjectsSingle'
<1>1. Objects \in SUBSET Appenders /\ UserAppender \notin Objects
  BY AppendersAssumption DEF Appenders
<1> QED  BY <1>1, NextSingleIn DEF ObjectsSingle

(* Nobody uses one at the beginning.                                       *)
LEMMA InitObjectsSingle == Init => ObjectsSingle
BY InitSingleIn DEF ObjectsSingle

-----------------------------------------------------------------------------
(* Formatters                                                              *)

(* An appender that never took a formatter from a logger.                  *)
Fresh(a) == appender[a].formatter # Null => appender[a].own
Formatted(a, l) == appender[a].own \/ appender[a].formatter = logger[l].formatter

(* While setFormatter() visits the appenders, those that it has visited    *)
(* have the new formatter; no other thread finds the logger free.  An      *)
(* appender that is attached for the first time has a formatter only if    *)
(* that is its own.                                                        *)
FreeFollows(l) ==
    (\A t \in Threads : at[t] = "fmt" => job[t].lg # l) =>
        \A a \in Appenders : In(a, l) => Formatted(a, l)
Visited(t) ==
    at[t] = "fmt" =>
        \A i \in 1..Len(List(t)) : i <= job[t].n => Formatted(List(t)[i], job[t].lg)
Adopts(t) ==
    /\ at[t] = "addLock" => Fresh(job[t].ap)
    /\ at[t] = "add" /\ job[t].has => appender[job[t].ap].own
Follows ==
    /\ \A l \in Names : FreeFollows(l)
    /\ \A t \in Threads : Visited(t) /\ Adopts(t)
    /\ ~attached => Fresh(UserAppender)

(* An appender keeps its formatter, or is given one of its own.            *)
Keeps(a) ==
    \/ appender'[a].own
    \/ (appender'[a].own <=> appender[a].own) /\ appender'[a].formatter = appender[a].formatter

(* Steps that change neither the formatter of a logger nor those of the    *)
(* appenders that are attached or about to be.                             *)
LEMMA FollowsFrame ==
    ASSUME LInv, Follows, NEW t \in Threads, Begin(t) \/ Continue(t),
           \A l \in Names : \A a \in Appenders : In(a, l)' => In(a, l) /\ Keeps(a),
           \A u \in Threads \ {t} : at[u] \in Adding => Keeps(job[u].ap),
           ~attached' => ~attached /\ Keeps(UserAppender),
           \A l \in Names : logger'[l].formatter = logger[l].formatter,
           at[t] # "fmt", at'[t] # "fmt", Adopts(t)'
    PROVE  Follows'
<1>1. \A u \in Threads \ {t} : Untouched(u)  BY ThreadLInv
<1>2. ASSUME NEW l \in Names PROVE FreeFollows(l)'
  <2> SUFFICES ASSUME \A u \in Threads : at'[u] = "fmt" => job'[u].lg # l,
                      NEW a \in Appenders, In(a, l)'
               PROVE  Formatted(a, l)'
    BY DEF FreeFollows
  <2>1. \A u \in Threads : at[u] = "fmt" => job[u].lg # l  BY <1>1 DEF Untouched
  <2>2. In(a, l) /\ Keeps(a)  OBVIOUS
  <2>3. Formatted(a, l)  BY <2>1, <2>2 DEF Follows, FreeFollows
  <2> QED  BY <2>2, <2>3 DEF Formatted, Keeps
<1>3. ASSUME NEW u \in Threads \ {t} PROVE Visited(u)' /\ Adopts(u)'
  <2>1. Untouched(u) /\ Visited(u) /\ Adopts(u)  BY <1>1 DEF Follows
  <2>2. Visited(u)'
    <3> SUFFICES ASSUME at[u] = "fmt" PROVE Visited(u)'  BY <2>1 DEF Visited, Untouched
    <3>1. job[u].lg \in Names /\ owner[job[u].lg] = u
      BY DEF LInv, Shape, JobsOK, JobOK, Lockings, Locking, Owning
    <3>2. logger'[job[u].lg].appenders = logger[job[u].lg].appenders  BY <3>1, ListKept
    <3>3. List(u)' = List(u)  BY <2>1, <3>2 DEF List, Untouched
    <3> SUFFICES ASSUME NEW i \in 1..Len(List(u)), i <= job[u].n
                 PROVE  Formatted(List(u)[i], job[u].lg)'
      BY <2>1, <3>3 DEF Visited, Untouched
    <3>4. PICK a : a = List(u)[i]  OBVIOUS
    <3>5. Formatted(a, job[u].lg)  BY <2>1, <3>4 DEF Visited
    <3>6. List(u) \in Seq(Appenders)  BY ListType
    <3>7. a \in Appenders /\ In(a, job[u].lg)'
      BY <3>2, <3>4, <3>6, <2>1 DEF In, Range, List, Untouched
    <3>8. Keeps(a)  BY <3>1, <3>7, <2>1 DEF In, Untouched
    <3>9. Formatted(a, job[u].lg)'  BY <3>1, <3>5, <3>8, <2>1 DEF Formatted, Keeps, Untouched
    <3> QED  BY <3>3, <3>4, <3>9 DEF Formatted
  <2>3. Adopts(u)'
    BY <2>1 DEF Adopts, Untouched, Fresh, Keeps, Adding
  <2> QED  BY <2>2, <2>3
<1>4. Visited(t)'  BY DEF Visited
<1>5. ~attached' => Fresh(UserAppender)'  BY DEF Follows, Fresh, Keeps
<1> QED  BY <1>2, <1>3, <1>4, <1>5 DEF Follows

(* The steps of setFormatter() and addAppender(), and those that make and  *)
(* destroy appenders.                                                      *)
Reformats(t) ==
    \/ AddLock(t) \/ AddEnd(t) \/ FmtLock(t) \/ FmtEach(t) \/ FmtEnd(t)
    \/ ConfMake(t) \/ ConfClear(t)
    \/ \E l \in Names : AddBegin(t, l) \/ (UserSection(t) /\ clearAppenders(l))

(* The other steps leave formatters alone, but for LogAppender's own       *)
(* setFormatter().                                                         *)
LEMMA QuietFormats ==
    ASSUME LInv, NEW t \in Threads, Begin(t) \/ Continue(t), ~Reformats(t)
    PROVE  /\ \A a \in Appenders : Keeps(a)
           /\ \A l \in Names : logger'[l].formatter = logger[l].formatter
           /\ at[t] # "fmt" /\ at'[t] \notin {"fmt", "addLock", "add"}
           /\ attached' = attached
<1> USE DEF LInv, Shape, DomainsOK, LoggersOK, LoggerOK, LoggerFields, Go, Keeps
<1>1. CASE LogStep(t) /\ ~LogStamp(t)
  BY <1>1 DEF LogStep, LogLevel, LogLock, LogEnd, LogStdout, LogFile, LogReopen, LogWrite, Return,
              objVars, history
<1>2. CASE LogStamp(t)
  BY <1>2 DEF LogStamp, AppendersOK, AppenderFields, history
<1>3. CASE \E l \in Names : LogBegin(t, l)  BY <1>3 DEF LogBegin, objVars, history
<1>4. CASE UserSection(t)
  <2>1. at' = at /\ at[t] = "idle" /\ attached' = attached
    BY <1>4 DEF UserSection, UserCall, history
  <2>2. CASE \E k \in Names : getLogger(k)  BY <2>1, <2>2 DEF getLogger
  <2>3. CASE \E k \in Names : delAppender(k)
    <3>1. PICK k, v : logger' = [logger EXCEPT ![k].appenders = v] /\ appender' = appender
      BY <2>3 DEF delAppender
    <3> QED  BY <2>1, <3>1
  <2>4. CASE \E k \in Names : SetLevel(k)  BY <2>1, <2>4 DEF SetLevel
  <2>5. CASE \E p \in UserPatterns : AppenderSetFormatter(p)
    BY <2>1, <2>5 DEF AppenderSetFormatter, AppendersOK, AppenderFields
  <2> QED  BY <1>4, <2>2, <2>3, <2>4, <2>5 DEF UserSection, Reformats
<1>5. CASE DumpBegin(t) \/ DumpOne(t) \/ DumpEnd(t)
  BY <1>5 DEF DumpBegin, DumpOne, DumpEnd, UserCall, objVars, history
<1>6. CASE \E k \in Names : \E p \in UserPatterns : FmtBegin(t, k, p)
  BY <1>6 DEF FmtBegin, UserCall, objVars, history
<1>7. CASE \/ \E doc \in Docs : LoadBegin(t, doc)
           \/ ConfNew(t) \/ ConfSame(t) \/ ConfDone(t) \/ Store(t)
  BY <1>7 DEF LoadBegin, ConfNew, ConfSame, ConfDone, Store, Announced, objVars, history
<1>8. CASE ConfChanged(t)
  <2>1. PICK k, v : logger' = [logger EXCEPT ![k].level = v]  BY <1>8 DEF ConfChanged
  <2> QED  BY <1>8, <2>1 DEF ConfChanged, history
<1>9. CASE ConfGone(t)
  <2>1. PICK k, v : logger' = [logger EXCEPT ![k].level = v]  BY <1>9 DEF ConfGone
  <2> QED  BY <1>9, <2>1 DEF ConfGone, history
<1> QED
  BY <1>1, <1>2, <1>3, <1>4, <1>5, <1>6, <1>7, <1>8, <1>9
     DEF Begin, Continue, UserBegin, UserContinue, LoadContinue, Reformats

(* Steps that change no formatter.                                         *)
LEMMA FollowsQuiet ==
    ASSUME LInv, Follows, NEW t \in Threads, Begin(t) \/ Continue(t), ~Reformats(t)
    PROVE  Follows'
<1>1. /\ \A a \in Appenders : Keeps(a)
      /\ \A l \in Names : logger'[l].formatter = logger[l].formatter
      /\ at[t] # "fmt" /\ at'[t] \notin {"fmt", "addLock", "add"}
      /\ attached' = attached
  BY QuietFormats
<1>2. ~AddEnd(t)  BY DEF Reformats
<1>3. \A l \in Names : \A a \in Appenders : In(a, l)' => In(a, l) /\ Keeps(a)
  BY <1>1, <1>2, ListsShrink
<1>4. \A u \in Threads \ {t} : at[u] \in Adding => Keeps(job[u].ap)
  BY <1>1 DEF LInv, Stages, Stage
<1>5. ~attached' => ~attached /\ Keeps(UserAppender)  BY <1>1 DEF Appenders
<1>6. Adopts(t)'  BY <1>1 DEF Adopts
<1> QED  BY <1>1, <1>3, <1>4, <1>5, <1>6, FollowsFrame

(* clearAppenders(): the appenders that it destroys are in no other list.  *)
LEMMA FollowsCleared ==
    ASSUME LInv, Single, Follows, NEW t \in Threads, Begin(t) \/ Continue(t),
           NEW l \in Names, Cleared(l), at[t] # "fmt", at'[t] \notin {"fmt", "addLock", "add"},
           attached' = attached
    PROVE  Follows'
<1> USE DEF LInv, Shape, LoggersOK, LoggerOK, LoggerFields
<1>1. logger' = [logger EXCEPT ![l].appenders = << >>] /\ appender' = Destroyed(l)
  BY DEF Cleared
<1>2. \A a \in Appenders : ~In(a, l) \/ a \notin Objects => Keeps(a)
  BY <1>1 DEF Destroyed, In, Keeps
<1>3. \A k \in Names : logger'[k].formatter = logger[k].formatter  BY <1>1
<1>4. \A a : ~In(a, l)'  BY <1>1 DEF In, Range
<1>5. \A k \in Names \ {l} : \A a : In(a, k)' <=> In(a, k)  BY <1>1 DEF In
<1>6. \A k \in Names : \A a \in Appenders : In(a, k)' => In(a, k) /\ Keeps(a)
  BY <1>2, <1>4, <1>5 DEF Single
<1>7. \A u \in Threads \ {t} : at[u] \in Adding => Keeps(job[u].ap)
  BY <1>2 DEF Stages, Stage, Single
<1>8. ~attached' => ~attached /\ Keeps(UserAppender)
  BY <1>2, AppendersAssumption DEF Appenders
<1>9. Adopts(t)'  BY DEF Adopts
<1> QED  BY <1>3, <1>6, <1>7, <1>8, <1>9, FollowsFrame

(* A user who attaches an appender for the first time.                     *)
LEMMA FollowsAddBegin ==
    ASSUME Sharing = "once", LInv, Follows, NEW t \in Threads, NEW l \in Names, AddBegin(t, l)
    PROVE  Follows'
<1> USE DEF LInv, Shape, DomainsOK, JobsOK, Go
<1>1. Begin(t)  BY DEF Begin, UserBegin
<1>2. UNCHANGED <<logger, appender>> /\ ~attached /\ attached' = TRUE
  BY DEF AddBegin, objVars, MayAttach
<1>3. job'[t].ap = UserAppender /\ at'[t] = "addLock" /\ at[t] = "idle"
  BY DEF AddBegin, UserCall, NoJob
<1>4. \A a : Keeps(a)  BY <1>2 DEF Keeps
<1>5. \A k \in Names : \A a \in Appenders : In(a, k)' => In(a, k) /\ Keeps(a)
  BY <1>2, <1>4 DEF In
<1>6. Adopts(t)'  BY <1>2, <1>3 DEF Adopts, Follows, Fresh
<1> QED  BY <1>1, <1>2, <1>3, <1>4, <1>5, <1>6, FollowsFrame

(* addAppender() finds out whether its appender has a formatter.           *)
LEMMA FollowsAddLock ==
    ASSUME LInv, Follows, NEW t \in Threads, AddLock(t)
    PROVE  Follows'
<1> USE DEF LInv, Shape, DomainsOK, JobsOK, Go
<1> JobOK(job[t])  OBVIOUS
<1>1. Continue(t)  BY DEF Continue, UserContinue
<1>2. UNCHANGED <<logger, appender, attached>>  BY DEF AddLock, history
<1>3. at'[t] = "add" /\ at[t] = "addLock"  BY DEF AddLock
<1>4. job'[t].ap = job[t].ap /\ (job'[t].has <=> appender[job[t].ap].formatter # Null)
  <2>1. PICK b : b = (appender[job[t].ap].formatter # Null)  OBVIOUS
  <2>2. job' = [job EXCEPT ![t].has = b]  BY <2>1 DEF AddLock
  <2>3. job'[t].has = b /\ job'[t].ap = job[t].ap  BY <2>2 DEF JobOK, JobFields
  <2> QED  BY <2>1, <2>3
<1>5. \A a : Keeps(a)  BY <1>2 DEF Keeps
<1>6. \A k \in Names : \A a \in Appenders : In(a, k)' => In(a, k) /\ Keeps(a)
  BY <1>2, <1>5 DEF In
<1>7. Adopts(t)'
  <2>1. Fresh(job[t].ap)  BY <1>3 DEF Follows, Adopts
  <2> QED  BY <1>2, <1>3, <1>4, <2>1 DEF Adopts, Fresh
<1> QED  BY <1>1, <1>2, <1>3, <1>5, <1>6, <1>7, FollowsFrame

(* The listener makes an appender, with a formatter of its own or with     *)
(* none.                                                                   *)
LEMMA FollowsMake ==
    ASSUME LInv, Follows, NEW t \in Threads, ConfMake(t)
    PROVE  Follows'
<1> USE DEF LInv, Shape, DomainsOK, JobsOK, Go
<1> JobOK(job[t])  OBVIOUS
<1>1. Continue(t)  BY DEF Continue, LoadContinue
<1>2. PICK a \in Unused : a = Min(Unused)
  BY MinIsIn, AppendersAssumption DEF ConfMake, Unused
<1>3. (\A k \in Names : ~In(a, k)) /\ (\A u \in Threads : job[u].ap # a) /\ a \in Appenders
      /\ a # UserAppender
  BY <1>2, AppendersAssumption DEF Unused, Attached, In, Appenders
<1>4. PICK p, b, f : /\ b <=> p # Null /\ ~isError(p)
                     /\ appender' = [appender EXCEPT ![a] =
                            [own |-> b, formatter |-> IF b THEN p ELSE Null,
                             file |-> f, lastTime |-> 0]]
  BY <1>2 DEF ConfMake
<1>5. UNCHANGED <<logger, attached>>  BY DEF ConfMake, history
<1>6. \A c \in Appenders \ {a} : Keeps(c)  BY <1>4 DEF Keeps, AppendersOK
<1>7. \A k \in Names : \A c \in Appenders : In(c, k)' => In(c, k) /\ Keeps(c)
  BY <1>3, <1>5, <1>6 DEF In
<1>8. \A u \in Threads \ {t} : at[u] \in Adding => Keeps(job[u].ap)
  BY <1>3, <1>6 DEF Stages, Stage
<1>9. ~attached' => ~attached /\ Keeps(UserAppender)  BY <1>3, <1>5, <1>6 DEF Appenders
<1>10. at[t] = "confAdd" /\ at'[t] = "addLock" /\ job'[t].ap = a
  BY <1>2 DEF ConfMake, JobOK, JobFields
<1>11. Adopts(t)'
  <2>1. Fresh(a)'  BY <1>3, <1>4 DEF Fresh, AppendersOK
  <2> QED  BY <1>10, <2>1 DEF Adopts, Fresh
<1> QED  BY <1>1, <1>5, <1>7, <1>8, <1>9, <1>10, <1>11, FollowsFrame

(* What other threads are doing does not depend on the appenders that this *)
(* one changes, nor on the formatter of the logger that it holds.          *)
LEMMA FollowsOther ==
    ASSUME LInv, Follows, NEW t \in Threads, Begin(t) \/ Continue(t), NEW u \in Threads \ {t},
           \A l \in Names : owner[l] # t =>
                \A a \in Appenders : In(a, l) => Keeps(a),
           at[u] \in Adding => Keeps(job[u].ap),
           \A l \in Names : owner[l] = u => logger'[l].formatter = logger[l].formatter
    PROVE  Visited(u)' /\ Adopts(u)'
<1>1. Untouched(u) /\ Visited(u) /\ Adopts(u)  BY ThreadLInv DEF Follows
<1>2. Visited(u)'
  <2> SUFFICES ASSUME at[u] = "fmt" PROVE Visited(u)'  BY <1>1 DEF Visited, Untouched
  <2>1. job[u].lg \in Names /\ owner[job[u].lg] = u
    BY DEF LInv, Shape, JobsOK, JobOK, Lockings, Locking, Owning
  <2>2. logger'[job[u].lg].appenders = logger[job[u].lg].appenders  BY <2>1, ListKept
  <2>3. List(u)' = List(u)  BY <1>1, <2>2 DEF List, Untouched
  <2> SUFFICES ASSUME NEW i \in 1..Len(List(u)), i <= job[u].n
               PROVE  Formatted(List(u)[i], job[u].lg)'
    BY <1>1, <2>3 DEF Visited, Untouched
  <2>4. PICK a : a = List(u)[i]  OBVIOUS
  <2>5. Formatted(a, job[u].lg)  BY <1>1, <2>4 DEF Visited
  <2>6. List(u) \in Seq(Appenders)  BY ListType
  <2>7. a \in Appenders /\ In(a, job[u].lg)  BY <2>4, <2>6 DEF In, Range, List
  <2>8. Keeps(a) /\ logger'[job[u].lg].formatter = logger[job[u].lg].formatter
    BY <2>1, <2>7
  <2>9. Formatted(a, job[u].lg)'  BY <1>1, <2>5, <2>8 DEF Formatted, Keeps, Untouched
  <2> QED  BY <2>3, <2>4, <2>9 DEF Formatted
<1>3. Adopts(u)'  BY <1>1 DEF Adopts, Untouched, Fresh, Keeps, Adding
<1> QED  BY <1>2, <1>3

(* addAppender() ends: the appender has a formatter of its own, or takes   *)
(* the logger's.                                                           *)
LEMMA FollowsAddEnd ==
    ASSUME LInv, Single, Follows, NEW t \in Threads, AddEnd(t)
    PROVE  Follows'
<1> USE DEF LInv, Shape, DomainsOK, JobsOK, Go
<1>1. Continue(t) /\ at[t] = "add"  BY DEF Continue, UserContinue, AddEnd
<1>2. PICK lg \in Names : lg = job[t].lg  BY DEF JobOK
<1>3. PICK a \in Appenders : a = job[t].ap  BY <1>1 DEF Stages, Stage, Adding
<1>4. owner[lg] = t  BY <1>1, <1>2 DEF Lockings, Locking, Owning
<1>5. (\A k \in Names : ~In(a, k)) /\ (\A u \in Threads \ {t} : job[u].ap # a)
  BY <1>1, <1>3 DEF Single, Adding
<1>6. \A k \in Names : \A c : In(c, k)' <=> In(c, k) \/ (k = lg /\ c = a)
  BY <1>2, <1>3, AddEndLists
<1>7. \A k \in Names : logger'[k].formatter = logger[k].formatter
  BY DEF AddEnd, LoggersOK, LoggerOK, LoggerFields
<1>8. \A c \in Appenders \ {a} : Keeps(c)  BY <1>3 DEF AddEnd, Keeps, AppendersOK
<1>9. Formatted(a, lg)'
  <2>1. CASE job[t].has
    <3>1. appender[a].own /\ appender' = appender  BY <1>1, <1>3, <2>1 DEF AddEnd, Follows, Adopts
    <3> QED  BY <3>1 DEF Formatted
  <2>2. CASE ~job[t].has
    <3>1. appender' = [appender EXCEPT ![a].formatter = logger[lg].formatter]
      BY <1>2, <1>3, <2>2 DEF AddEnd
    <3>2. appender'[a].formatter = logger[lg].formatter
      BY <3>1 DEF AppendersOK, AppenderFields
    <3> QED  BY <1>7, <3>2 DEF Formatted
  <2> QED  BY <2>1, <2>2
<1>10. at'[t] \in {"idle", "confAdd"} /\ attached' = attached  BY DEF AddEnd, Return, history
<1>11. \A u \in Threads \ {t} : Untouched(u)  BY <1>1, ThreadLInv
<1>12. ASSUME NEW l \in Names PROVE FreeFollows(l)'
  <2> SUFFICES ASSUME \A u \in Threads : at'[u] = "fmt" => job'[u].lg # l,
                      NEW c \in Appenders, In(c, l)'
               PROVE  Formatted(c, l)'
    BY DEF FreeFollows
  <2>1. \A u \in Threads : at[u] = "fmt" => job[u].lg # l  BY <1>1, <1>11 DEF Untouched
  <2>2. CASE c = a  BY <1>5, <1>6, <1>9, <2>2
  <2>3. CASE c # a
    <3>1. In(c, l) /\ Keeps(c)  BY <1>6, <1>8, <2>3
    <3>2. Formatted(c, l)  BY <2>1, <3>1 DEF Follows, FreeFollows
    <3> QED  BY <1>7, <3>1, <3>2 DEF Formatted, Keeps
  <2> QED  BY <2>2, <2>3
<1>13. ASSUME NEW u \in Threads \ {t} PROVE Visited(u)' /\ Adopts(u)'
  <2>1. at[u] \in Adding => Keeps(job[u].ap)
    BY <1>5, <1>8 DEF Stages, Stage
  <2>2. \A l \in Names : \A c \in Appenders : In(c, l) => Keeps(c)  BY <1>5, <1>8
  <2> QED  BY <1>1, <1>7, <2>1, <2>2, FollowsOther
<1>14. Visited(t)' /\ Adopts(t)'  BY <1>10 DEF Visited, Adopts
<1>15. ~attached' => Fresh(UserAppender)'
  <2>1. ~attached => a # UserAppender  BY <1>3 DEF Single
  <2> QED  BY <1>8, <1>10, <2>1 DEF Follows, Fresh, Keeps, Appenders
<1> QED  BY <1>12, <1>13, <1>14, <1>15 DEF Follows

(* setFormatter() begins with the logger itself.                           *)
LEMMA FollowsFmtLock ==
    ASSUME LInv, Follows, NEW t \in Threads, FmtLock(t)
    PROVE  Follows'
<1> USE DEF LInv, Shape, DomainsOK, JobsOK, Go
<1>1. Continue(t) /\ at[t] = "fmtLock" /\ at'[t] = "fmt"
  BY DEF Continue, UserContinue, FmtLock
<1>2. PICK lg \in Names : lg = job[t].lg  BY DEF JobOK
<1>3. Free(lg) /\ UNCHANGED <<appender, job, attached>>  BY <1>2 DEF FmtLock, history
<1>4. job[t].n = 0  BY <1>1 DEF Stages, Stage, Writing
<1>5. \A k \in Names : \A c : In(c, k)' <=> In(c, k)
  BY DEF FmtLock, LoggersOK, LoggerOK, LoggerFields, In
<1>6. \A k \in Names \ {lg} : logger'[k].formatter = logger[k].formatter
  BY <1>2 DEF FmtLock, LoggersOK, LoggerOK, LoggerFields
<1>7. \A u \in Threads \ {t} : Untouched(u)  BY <1>1, ThreadLInv
<1>8. \A c : Keeps(c)  BY <1>3 DEF Keeps
<1>9. ASSUME NEW l \in Names PROVE FreeFollows(l)'
  <2> SUFFICES ASSUME \A u \in Threads : at'[u] = "fmt" => job'[u].lg # l,
                      NEW c \in Appenders, In(c, l)'
               PROVE  Formatted(c, l)'
    BY DEF FreeFollows
  <2>1. l # lg  BY <1>1, <1>2, <1>3
  <2>2. \A u \in Threads : at[u] = "fmt" => job[u].lg # l  BY <1>1, <1>7 DEF Untouched
  <2>3. Formatted(c, l)  BY <1>5, <2>2 DEF Follows, FreeFollows
  <2> QED  BY <1>3, <1>6, <2>1, <2>3 DEF Formatted
<1>10. ASSUME NEW u \in Threads \ {t} PROVE Visited(u)' /\ Adopts(u)'
  <2>1. \A l \in Names : owner[l] = u => logger'[l].formatter = logger[l].formatter
    BY <1>3, <1>6, ThreadsAssumption DEF Free
  <2> QED  BY <1>1, <1>8, <2>1, FollowsOther
<1>11. Visited(t)'
  <2>1. \A i \in Nat : i <= 0 => i = 0  OBVIOUS
  <2> QED  BY <1>3, <1>4, <2>1 DEF Visited
<1>12. Adopts(t)'  BY <1>1 DEF Adopts
<1>13. ~attached' => Fresh(UserAppender)'  BY <1>3 DEF Follows, Fresh
<1> QED  BY <1>9, <1>10, <1>11, <1>12, <1>13 DEF Follows

(* setFormatter() visits an appender.                                      *)
LEMMA FollowsFmtEach ==
    ASSUME LInv, Single, Follows, NEW t \in Threads, FmtEach(t)
    PROVE  Follows'
<1> USE DEF LInv, Shape, DomainsOK, JobsOK, Go
<1> JobOK(job[t])  OBVIOUS
<1>1. Continue(t) /\ at[t] = "fmt" /\ at'[t] = "fmt" /\ UNCHANGED <<logger, attached>>
  BY DEF Continue, UserContinue, FmtEach, history
<1>2. PICK lg \in Names : lg = job[t].lg  BY DEF JobOK
<1>3. owner[lg] = t  BY <1>1, <1>2 DEF Lockings, Locking, Owning
<1>4. PICK n \in Nat : n = job[t].n  BY DEF JobOK
<1>5. PICK a : a = List(t)[n + 1]  OBVIOUS
<1>6. List(t) \in Seq(Appenders) /\ n < Len(List(t)) /\ Len(List(t)) \in Nat
  BY <1>4, ListType DEF FmtEach
<1>7. a \in Appenders /\ In(a, lg)  BY <1>2, <1>4, <1>5, <1>6 DEF In, Range, List
<1>8. appender' = IF ~Inherits(a) THEN appender
                  ELSE [appender EXCEPT ![a].formatter = logger[lg].formatter]
  BY <1>2, <1>4, <1>5 DEF FmtEach
<1>9. \A c \in Appenders \ {a} : Keeps(c)  BY <1>7, <1>8 DEF Keeps, AppendersOK
<1>10. Formatted(a, lg)'
  BY <1>1, <1>7, <1>8 DEF Formatted, Inherits, AppendersOK, AppenderFields
<1>11. job'[t].n = n + 1 /\ job'[t].lg = lg  BY <1>2, <1>4 DEF FmtEach, JobOK, JobFields
<1>12. \A u \in Threads \ {t} : Untouched(u)  BY <1>1, ThreadLInv
<1>13. ASSUME NEW l \in Names PROVE FreeFollows(l)'
  <2> SUFFICES ASSUME \A u \in Threads : at'[u] = "fmt" => job'[u].lg # l,
                      NEW c \in Appenders, In(c, l)'
               PROVE  Formatted(c, l)'
    BY DEF FreeFollows
  <2>1. l # lg  BY <1>1, <1>11
  <2>2. \A u \in Threads : at[u] = "fmt" => job[u].lg # l
    BY <1>1, <1>2, <1>11, <1>12, <2>1 DEF Untouched
  <2>3. In(c, l)  BY <1>1 DEF In
  <2>4. c # a  BY <1>7, <2>1, <2>3 DEF Single
  <2>5. Formatted(c, l)  BY <2>2, <2>3 DEF Follows, FreeFollows
  <2> QED  BY <1>1, <1>9, <2>4, <2>5 DEF Formatted, Keeps
<1>14. ASSUME NEW u \in Threads \ {t} PROVE Visited(u)' /\ Adopts(u)'
  <2>1. at[u] \in Adding => Keeps(job[u].ap)
    BY <1>7, <1>9 DEF Stages, Stage, Single
  <2>2. \A l \in Names : owner[l] # t => \A c \in Appenders : In(c, l) => Keeps(c)
    BY <1>3, <1>7, <1>9 DEF Single
  <2> QED  BY <1>1, <2>1, <2>2, FollowsOther
<1>15. Visited(t)'
  <2>1. List(t)' = List(t)  BY <1>1, <1>2, <1>11 DEF List
  <2> SUFFICES ASSUME NEW i \in 1..Len(List(t)), i <= n + 1
               PROVE  Formatted(List(t)[i], lg)'
    BY <1>11, <2>1 DEF Visited, Formatted
  <2>2. PICK c : c = List(t)[i]  OBVIOUS
  <2>3. Formatted(c, lg)'
    <3>1. CASE c = a  BY <1>10, <3>1
    <3>2. CASE c # a
      <4>1. i <= n  BY <1>5, <2>2, <3>2
      <4>2. Formatted(c, lg)  BY <1>1, <1>2, <1>4, <2>2, <4>1 DEF Follows, Visited
      <4>3. c \in Appenders  BY <1>6, <2>2
      <4> QED  BY <1>1, <1>9, <3>2, <4>2, <4>3 DEF Formatted, Keeps
    <3> QED  BY <3>1, <3>2
  <2> QED  BY <2>1, <2>2, <2>3 DEF Formatted
<1>16. Adopts(t)'  BY <1>1 DEF Adopts
<1>17. ~attached' => Fresh(UserAppender)'
  <2>1. ~attached => a # UserAppender  BY <1>7 DEF Single
  <2> QED  BY <1>1, <1>9, <2>1 DEF Follows, Fresh, Keeps, Appenders
<1> QED  BY <1>13, <1>14, <1>15, <1>16, <1>17 DEF Follows

(* setFormatter() ends when it has visited all appenders.                  *)
LEMMA FollowsFmtEnd ==
    ASSUME LInv, Follows, NEW t \in Threads, FmtEnd(t)
    PROVE  Follows'
<1> USE DEF LInv, Shape, DomainsOK, JobsOK, Go
<1>1. Continue(t) /\ at[t] = "fmt" /\ at'[t] \in {"idle", "confClear"}
      /\ UNCHANGED <<logger, appender, attached>>
  BY DEF Continue, UserContinue, FmtEnd, Return, history
<1>2. PICK lg \in Names : lg = job[t].lg  BY DEF JobOK
<1>3. List(t) \in Seq(Appenders) /\ job[t].n \in Nat /\ Len(List(t)) \in Nat /\ job[t].n >= Len(List(t))
  BY ListType DEF FmtEnd
<1>4. \A c : Keeps(c)  BY <1>1 DEF Keeps
<1>5. \A u \in Threads \ {t} : Untouched(u)  BY <1>1, ThreadLInv
<1>6. ASSUME NEW l \in Names PROVE FreeFollows(l)'
  <2> SUFFICES ASSUME \A u \in Threads : at'[u] = "fmt" => job'[u].lg # l,
                      NEW c \in Appenders, In(c, l)
               PROVE  Formatted(c, l)
    BY <1>1 DEF FreeFollows, Formatted, In
  <2>1. CASE l = lg
    <3>1. PICK i \in 1..Len(List(t)) : c = List(t)[i]
      BY <1>2, <1>3, <2>1 DEF In, Range, List
    <3>2. i <= job[t].n  BY <1>3, <3>1
    <3> QED  BY <1>1, <1>2, <2>1, <3>1, <3>2 DEF Follows, Visited
  <2>2. CASE l # lg
    <3>1. \A u \in Threads : at[u] = "fmt" => job[u].lg # l  BY <1>2, <1>5, <2>2 DEF Untouched
    <3> QED  BY <3>1 DEF Follows, FreeFollows
  <2> QED  BY <2>1, <2>2
<1>7. ASSUME NEW u \in Threads \ {t} PROVE Visited(u)' /\ Adopts(u)'
  BY <1>1, <1>4, FollowsOther
<1>8. Visited(t)' /\ Adopts(t)'  BY <1>1 DEF Visited, Adopts
<1>9. ~attached' => Fresh(UserAppender)'  BY <1>1 DEF Follows, Fresh
<1> QED  BY <1>6, <1>7, <1>8, <1>9 DEF Follows

(* Follows is inductive, given LInv and Single, when users attach their    *)
(* appender once.                                                          *)
LEMMA NextFollows ==
    ASSUME Sharing = "once"
    PROVE  LInv /\ Single /\ Follows /\ [Next]_vars => Follows'
<1> SUFFICES ASSUME LInv, Single, Follows, [Next]_vars PROVE Follows'  OBVIOUS
<1>1. CASE Tick \/ UNCHANGED vars
  <2>1. UNCHANGED <<logger, appender, at, job, attached>>
    BY <1>1 DEF Tick, vars, objVars, history
  <2> QED
    BY <2>1 DEF Follows, FreeFollows, Visited, Adopts, Fresh, Formatted, In, List
<1>2. ASSUME NEW t \in Threads, Begin(t) \/ Continue(t) PROVE Follows'
  <2> USE DEF LInv, Shape, DomainsOK, Go
  <2>1. CASE ~Reformats(t)  BY <1>2, <2>1, FollowsQuiet
  <2>2. CASE ConfClear(t)
    <3>1. load[t].cur \in Names /\ Cleared(load[t].cur)
      BY <2>2 DEF ConfClear, LoadsOK, LoadOK
    <3>2. at[t] # "fmt" /\ at'[t] \notin {"fmt", "addLock", "add"} /\ attached' = attached
      BY <2>2 DEF ConfClear, history
    <3> QED  BY <1>2, <3>1, <3>2, FollowsCleared
  <2>3. ASSUME NEW l \in Names, UserSection(t), clearAppenders(l) PROVE Follows'
    <3>1. Cleared(l)  BY <2>3 DEF clearAppenders
    <3>2. at[t] # "fmt" /\ at'[t] \notin {"fmt", "addLock", "add"} /\ attached' = attached
      BY <2>3 DEF UserSection, UserCall, history
    <3> QED  BY <1>2, <3>1, <3>2, FollowsCleared
  <2> QED
    BY <2>1, <2>2, <2>3, FollowsAddBegin, FollowsAddLock, FollowsAddEnd, FollowsMake,
       FollowsFmtLock, FollowsFmtEach, FollowsFmtEnd DEF Reformats
<1> QED  BY <1>1, <1>2 DEF Next

(* The root logger's appender has the root logger's formatter.             *)
LEMMA InitFollows == Init => Follows
<1> SUFFICES ASSUME Init PROVE Follows  OBVIOUS
<1>1. \A l \in Names : \A a : In(a, l) => l = Root /\ a = RootAppender
  BY DEF Init, In, Range
<1>2. \A t \in Threads : at[t] = "idle"  BY DEF Init
<1>3. appender[RootAppender].formatter = DefaultPattern /\ logger[Root].formatter = DefaultPattern
  <2>1. RootAppender \in Appenders /\ RootAppender # UserAppender
    BY AppendersAssumption DEF Appenders
  <2>2. appender[RootAppender] = [NoAppender EXCEPT !.formatter = DefaultPattern]
    BY <2>1 DEF Init
  <2>3. appender[RootAppender].formatter = DefaultPattern  BY <2>2 DEF NoAppender
  <2>4. logger[Root].formatter = DefaultPattern  BY NamesAssumption DEF Init
  <2> QED  BY <2>3, <2>4
<1>4. appender[UserAppender].formatter = Null
  BY AppendersAssumption DEF Init, NoAppender, Appenders
<1>5. \A l \in Names : FreeFollows(l)  BY <1>1, <1>3 DEF FreeFollows, Formatted
<1> QED  BY <1>2, <1>4, <1>5 DEF Follows, Visited, Adopts, Fresh

(* An appender without a formatter of its own writes with the one that its *)
(* logger has, as long as users attach their appender once.                *)
THEOREM FormattersInherited ==
    ASSUME Sharing = "once"
    PROVE  Spec => []InheritedFollows
<1>1. LInv /\ Follows => InheritedFollows
  <2> SUFFICES ASSUME LInv, Follows, NEW l \in Names, Free(l),
                      NEW a \in Range(logger[l].appenders)
               PROVE  appender[a].own \/ appender[a].formatter = logger[l].formatter
    BY DEF InheritedFollows
  <2>1. \A t \in Threads : at[t] = "fmt" => job[t].lg # l
    BY ThreadsAssumption DEF Free, LInv, Lockings, Locking, Owning
  <2>2. a \in Appenders
    BY RangeOfSeq DEF LInv, Shape, LoggersOK, LoggerOK
  <2> QED  BY <2>1, <2>2 DEF Follows, FreeFollows, In, Formatted
<1>2. Sharing # "shared"  OBVIOUS
<1> QED
  BY <1>1, <1>2, InitLInv, NextLInv, InitSingle, NextSingle, InitFollows, NextFollows, PTL DEF Spec

-----------------------------------------------------------------------------
(* Reloading                                                               *)

(* The objects of two lists are the same, and in the same order.           *)
SameObjects(r, s) ==
    /\ Objects \cap Range(r) = Objects \cap Range(s)
    /\ \A i, j \in DOMAIN r : i < j /\ r[i] \in Objects /\ r[j] \in Objects =>
        \E x, y \in DOMAIN s : x < y /\ s[x] = r[i] /\ s[y] = r[j]

(* A list stands for the same entries as long as it has the same objects,  *)
(* with the same files.                                                    *)
LEMMA StandForKept ==
    ASSUME NEW l \in Names, NEW entries, NEW n, StandFor(l, entries, n),
           SameObjects(logger'[l].appenders, logger[l].appenders),
           \A a \in Made(l) : appender'[a].file = appender[a].file
    PROVE  StandFor(l, entries, n)'
<1>1. PICK r, s : r = logger'[l].appenders /\ s = logger[l].appenders  OBVIOUS
<1>2. PICK A : A = Made(l)  OBVIOUS
<1>3. Made(l)' = A /\ A \subseteq Objects
  BY <1>1, <1>2 DEF Made, SameObjects
<1>4. PICK m \in [A -> 1..n] :
        /\ \A a \in A : appender[a].file = entries[m[a]].file
        /\ \A i, j \in DOMAIN s :
            i < j /\ s[i] \in Objects /\ s[j] \in Objects => m[s[i]] < m[s[j]]
        /\ \A a \in A : \A k \in m[a]..n : \E b \in A : m[b] = k
  BY <1>1, <1>2 DEF StandFor
<1>5. \A a \in A : appender'[a].file = entries[m[a]].file  BY <1>2, <1>4
<1>6. \A i, j \in DOMAIN r :
        i < j /\ r[i] \in Objects /\ r[j] \in Objects => m[r[i]] < m[r[j]]
  BY <1>1, <1>4 DEF SameObjects
<1> QED  BY <1>1, <1>3, <1>4, <1>5, <1>6 DEF StandFor

(* As long as the listener adds no appender to it, a list keeps its        *)
(* objects, or is cleared.                                                 *)
LEMMA ObjectsKept ==
    ASSUME LInv, NEW t \in Threads, Begin(t) \/ Continue(t), ~AddEnd(t) \/ job[t].ap \notin Objects,
           NEW l \in Names
    PROVE  Made(l)' = {} \/ SameObjects(logger'[l].appenders, logger[l].appenders)
<1> USE DEF LInv, Shape, LoggersOK, LoggerOK, LoggerFields
<1>1. PICK r, s : r = logger'[l].appenders /\ s = logger[l].appenders  OBVIOUS
<1>2. s \in Seq(Appenders) /\ UserAppender \notin Objects  BY <1>1, AppendersAssumption
<1>3. CASE r = s  BY <1>1, <1>3 DEF SameObjects
<1>4. CASE r = << >>  BY <1>1, <1>4 DEF Made, Range
<1>5. CASE r = RemoveFirst(s, UserAppender)
  <2>1. /\ Range(r) \subseteq Range(s) /\ Range(s) \subseteq Range(r) \cup {UserAppender}
        /\ \A i, j \in DOMAIN r : i < j =>
            \E x, y \in DOMAIN s : x < y /\ s[x] = r[i] /\ s[y] = r[j]
    BY <1>2, <1>5, RemoveFirstShrinks
  <2> QED  BY <1>1, <1>2, <2>1 DEF SameObjects
<1>6. CASE AddEnd(t)
  <2>1. PICK a : a = job[t].ap  OBVIOUS
  <2>2. r = s \/ r = Append(s, a)  BY <1>1, <1>6, <2>1 DEF AddEnd
  <2>3. CASE r = Append(s, a)
    <3>1. a \notin Objects  BY <1>6, <2>1
    <3>2. DOMAIN r = 1..(Len(s) + 1) /\ r[Len(s) + 1] = a /\ \A i \in 1..Len(s) : r[i] = s[i]
      BY <1>2, <2>3
    <3>3. DOMAIN s = 1..Len(s) /\ Len(s) \in Nat  BY <1>2
    <3>4. \A i \in DOMAIN r : r[i] \in Objects => i \in DOMAIN s /\ r[i] = s[i]
      BY <3>1, <3>2, <3>3
    <3>5. \A i \in DOMAIN s : i \in DOMAIN r /\ r[i] = s[i]  BY <3>2, <3>3
    <3> QED  BY <1>1, <3>4, <3>5 DEF SameObjects, Range
  <2> QED  BY <1>3, <2>2, <2>3
<1> QED  BY <1>1, <1>3, <1>4, <1>5, <1>6, ListChange

(* The steps that change what an appender writes to.                       *)
LEMMA FileChange ==
    ASSUME LInv, NEW t \in Threads, Begin(t) \/ Continue(t)
    PROVE  \/ \A a \in Appenders : appender'[a].file = appender[a].file
           \/ \E k \in Names : Cleared(k)
           \/ ConfMake(t)
<1> USE DEF LInv, Shape, AppendersOK, AppenderFields
<1>1. CASE LogStep(t) /\ ~LogStamp(t)
  BY <1>1 DEF LogStep, LogLevel, LogLock, LogEnd, LogStdout, LogFile, LogReopen, LogWrite, objVars
<1>2. CASE LogStamp(t)  BY <1>2 DEF LogStamp
<1>3. CASE \E l \in Names : LogBegin(t, l)  BY <1>3 DEF LogBegin, objVars
<1>4. CASE UserSection(t)
  <2>1. CASE \E k \in Names : getLogger(k) \/ delAppender(k) \/ SetLevel(k)
    BY <2>1 DEF getLogger, delAppender, SetLevel
  <2>2. CASE \E k \in Names : clearAppenders(k)  BY <2>2 DEF clearAppenders
  <2>3. CASE \E p \in UserPatterns : AppenderSetFormatter(p)  BY <2>3 DEF AppenderSetFormatter
  <2> QED  BY <1>4, <2>1, <2>2, <2>3 DEF UserSection
<1>5. CASE UserBegin(t) /\ ~UserSection(t)
  BY <1>5 DEF UserBegin, DumpBegin, AddBegin, FmtBegin, objVars
<1>6. CASE AddLock(t) \/ FmtLock(t) \/ FmtEnd(t) \/ DumpOne(t) \/ DumpEnd(t)
  BY <1>6 DEF AddLock, FmtLock, FmtEnd, DumpOne, DumpEnd, objVars
<1>7. CASE AddEnd(t)  BY <1>7 DEF AddEnd
<1>8. CASE FmtEach(t)  BY <1>8 DEF FmtEach
<1>9. CASE \/ \E doc \in Docs : LoadBegin(t, doc)
           \/ ConfNew(t) \/ ConfSame(t) \/ ConfChanged(t) \/ ConfDone(t) \/ ConfGone(t) \/ Store(t)
  BY <1>9 DEF LoadBegin, ConfNew, ConfSame, ConfChanged, ConfDone, ConfGone, Store, objVars
<1>10. CASE ConfClear(t)  BY <1>10 DEF ConfClear, LoadsOK, LoadOK
<1> QED
  BY <1>1, <1>2, <1>3, <1>4, <1>5, <1>6, <1>7, <1>8, <1>9, <1>10
     DEF Begin, Continue, UserBegin, UserContinue, LoadContinue

(* An object keeps its file as long as it is in a list.                    *)
LEMMA FilesKept ==
    ASSUME LInv, ObjectsSingle, NEW t \in Threads, Begin(t) \/ Continue(t),
           NEW l \in Names, NEW a \in Objects, In(a, l)
    PROVE  (~In(a, l)' /\ Made(l)' = {}) \/ appender'[a].file = appender[a].file
<1> USE DEF LInv, Shape, LoggersOK, LoggerOK, LoggerFields
<1>1. a \in Appenders  BY DEF Appenders
<1>2. ASSUME NEW k \in Names, Cleared(k)
      PROVE  (~In(a, l)' /\ Made(l)' = {}) \/ appender'[a].file = appender[a].file
  <2>1. CASE k = l  BY <1>2, <2>1 DEF Cleared, In, Made, Range
  <2>2. CASE k # l
    <3>1. ~In(a, k)  BY <2>2 DEF ObjectsSingle, SingleIn
    <3> QED  BY <1>1, <1>2, <3>1 DEF Cleared, Destroyed, In
  <2> QED  BY <2>1, <2>2
<1>3. CASE ConfMake(t)
  <2>1. PICK b \in Unused : b = Min(Unused)
    BY <1>3, MinIsIn, AppendersAssumption DEF ConfMake, Unused
  <2>2. PICK v : appender' = [appender EXCEPT ![b] = v]  BY <1>3, <2>1 DEF ConfMake
  <2>3. a # b  BY DEF Unused, Attached, In
  <2> QED  BY <1>1, <2>2, <2>3
<1> QED  BY <1>1, <1>2, <1>3, FileChange

(* A list without objects of the listener stands for none of any entries.  *)
LEMMA NoneStand ==
    ASSUME NEW l \in Names, NEW entries, NEW n, Made(l) = {}
    PROVE  StandFor(l, entries, n)
<1>1. PICK s : s = logger[l].appenders  OBVIOUS
<1>2. PICK m : m = [a \in Made(l) |-> 1]  OBVIOUS
<1>3. m \in [Made(l) -> 1..n]  BY <1>2
<1>4. \A i \in DOMAIN s : s[i] \notin Objects  BY <1>1 DEF Made, Range
<1> QED  BY <1>1, <1>3, <1>4 DEF StandFor

(* The same after a step.                                                  *)
LEMMA NoneStandNext ==
    ASSUME NEW l \in Names, NEW entries, NEW n, Made(l)' = {}
    PROVE  StandFor(l, entries, n)'
<1>1. (Made(l) = {} => StandFor(l, entries, n))'  BY NoneStand, PTL
<1> QED  BY <1>1

(* What the list of a logger stands for changes only when the listener     *)
(* adds an appender.                                                       *)
LEMMA StandsKept ==
    ASSUME LInv, ObjectsSingle, NEW t \in Threads, Begin(t) \/ Continue(t),
           ~AddEnd(t) \/ job[t].ap \notin Objects,
           NEW l \in Names, NEW entries, NEW n, StandFor(l, entries, n)
    PROVE  StandFor(l, entries, n)'
<1>1. CASE Made(l)' = {}  BY <1>1, NoneStandNext
<1>2. CASE Made(l)' # {}
  <2>1. SameObjects(logger'[l].appenders, logger[l].appenders)  BY <1>2, ObjectsKept
  <2>2. \A a \in Made(l) : appender'[a].file = appender[a].file
    BY <1>2, FilesKept DEF Made, In
  <2> QED  BY <2>1, <2>2, StandForKept
<1> QED  BY <1>1, <1>2

(* The listener adds the appender of the next entry.                       *)
LEMMA StandsAdded ==
    ASSUME LInv, ObjectsSingle, NEW t \in Threads, AddEnd(t), job[t].ap \in Objects,
           NEW l \in Names, l = job[t].lg, NEW entries, NEW n \in Nat \ {0},
           StandFor(l, entries, n - 1), appender[job[t].ap].file = entries[n].file
    PROVE  StandFor(l, entries, n)'
<1> USE DEF LInv, Shape, LoggersOK, LoggerOK, LoggerFields
<1>1. PICK s, a, A : s = logger[l].appenders /\ a = job[t].ap /\ A = Made(l)  OBVIOUS
<1>2. s \in Seq(Appenders) /\ a \in Objects /\ a \in Appenders  BY <1>1 DEF Appenders
<1>3. a \notin Range(s)  BY <1>1 DEF ObjectsSingle, SingleIn, In, AddEnd, Adding
<1>4. PICK m \in [A -> 1..(n - 1)] :
        /\ \A b \in A : appender[b].file = entries[m[b]].file
        /\ \A i, j \in DOMAIN s :
            i < j /\ s[i] \in Objects /\ s[j] \in Objects => m[s[i]] < m[s[j]]
        /\ \A b \in A : \A k \in m[b]..(n - 1) : \E c \in A : m[c] = k
  BY <1>1 DEF StandFor
<1>5. PICK r : r = Append(s, a)  OBVIOUS
<1>6. logger'[l].appenders = r  BY <1>1, <1>5 DEF AddEnd
<1>7. DOMAIN r = 1..(Len(s) + 1) /\ r[Len(s) + 1] = a /\ \A i \in 1..Len(s) : r[i] = s[i]
  BY <1>2, <1>5, AppendElements
<1>8. DOMAIN s = 1..Len(s) /\ Len(s) \in Nat  BY <1>2
<1>9. Range(r) = Range(s) \cup {a}  BY <1>2, <1>5, AppendElements
<1>10. Made(l)' = A \cup {a} /\ a \notin A /\ A = Objects \cap Range(s)
  BY <1>1, <1>2, <1>3, <1>6, <1>9 DEF Made
<1>11. PICK w : w = [b \in A \cup {a} |-> IF b = a THEN n ELSE m[b]]  OBVIOUS
<1>12. w \in [A \cup {a} -> 1..n] /\ w[a] = n /\ \A b \in A : w[b] = m[b] /\ m[b] \in 1..(n - 1)
  <2>1. \A b \in A : m[b] \in 1..(n - 1) /\ m[b] \in 1..n  BY <1>4
  <2>2. n \in 1..n  OBVIOUS
  <2> QED  BY <1>10, <1>11, <2>1, <2>2
<1>13. \A b \in Appenders : appender'[b].file = appender[b].file
  BY DEF AddEnd, AppendersOK, AppenderFields
<1>14. \A b \in A \cup {a} : appender'[b].file = entries[w[b]].file
  BY <1>1, <1>2, <1>4, <1>10, <1>12, <1>13, SMTT(60) DEF Appenders
<1>15. ASSUME NEW i \in DOMAIN r, NEW j \in DOMAIN r, i < j, r[i] \in Objects, r[j] \in Objects
       PROVE  w[r[i]] < w[r[j]]
  <2>1. i \in 1..Len(s) /\ i \in DOMAIN s /\ r[i] = s[i] /\ r[i] \in A
    BY <1>7, <1>8, <1>10, <1>15 DEF Range
  <2>2. CASE j = Len(s) + 1
    <3>1. w[r[j]] = n /\ w[r[i]] \in 1..(n - 1)  BY <1>7, <1>12, <2>1, <2>2
    <3> QED  BY <3>1
  <2>3. CASE j # Len(s) + 1
    <3>1. j \in DOMAIN s /\ r[j] = s[j] /\ r[j] \in A
      BY <1>7, <1>8, <1>10, <1>15, <2>3 DEF Range
    <3> QED  BY <1>4, <1>12, <1>15, <2>1, <3>1
  <2> QED  BY <2>2, <2>3
<1>16. ASSUME NEW b \in A \cup {a}, NEW k \in w[b]..n PROVE \E c \in A \cup {a} : w[c] = k
  <2>1. CASE k = n  BY <1>12, <2>1
  <2>2. CASE k # n
    <3>1. w[b] \in 1..n /\ w[b] # n  BY <1>12, <1>16, <2>2
    <3>2. b \in A /\ w[b] = m[b]  BY <1>12, <3>1
    <3>3. k \in m[b]..(n - 1)  BY <1>16, <2>2, <3>1, <3>2
    <3>4. PICK c \in A : m[c] = k  BY <1>4, <3>2, <3>3
    <3> QED  BY <1>12, <3>4
  <2> QED  BY <2>1, <2>2
<1>17. \E z \in [A \cup {a} -> 1..n] :
        /\ \A b \in A \cup {a} : appender'[b].file = entries[z[b]].file
        /\ \A i, j \in DOMAIN r :
            i < j /\ r[i] \in Objects /\ r[j] \in Objects => z[r[i]] < z[r[j]]
        /\ \A b \in A \cup {a} : \A k \in z[b]..n : \E c \in A \cup {a} : z[c] = k
  BY <1>12, <1>14, <1>15, <1>16
<1> HIDE DEF LInv, Shape, LoggersOK, LoggerOK, LoggerFields
<1> QED  BY ONLY <1>6, <1>10, <1>17 DEF StandFor

(* The other lists do not change.                                          *)
LEMMA StandsElsewhere ==
    ASSUME LInv, NEW t \in Threads, AddEnd(t), NEW l \in Names \ {job[t].lg},
           NEW entries, NEW n, StandFor(l, entries, n)
    PROVE  StandFor(l, entries, n)'
<1> USE DEF LInv, Shape, LoggersOK, LoggerOK, LoggerFields
<1>1. logger'[l].appenders = logger[l].appenders  BY DEF AddEnd
<1>2. \A b \in Appenders : appender'[b].file = appender[b].file
  BY DEF AddEnd, AppendersOK, AppenderFields
<1>3. Made(l) \subseteq Appenders  BY DEF Made, Appenders
<1>4. SameObjects(logger'[l].appenders, logger[l].appenders)  BY <1>1 DEF SameObjects
<1> QED  BY <1>2, <1>3, <1>4, StandForKept

(* One thread at a time loads documents.                                   *)
OneLoader == \A c, d \in Loaders : c = d

(* The listener works on the logger cur: it visits it, and fills its list. *)
Filling == {"confAdd"} \cup Adding
Visiting == {"fmtLock", "fmt", "confClear"} \cup Filling

(* The list of a logger is what some definitions say.                      *)
Accords(l, defs) ==
    \/ Made(l) = {}
    \/ l \in DOMAIN defs /\ StandFor(l, defs[l].appenders, Len(defs[l].appenders))

(* A load that is under way: what it has read, and which appender it is    *)
(* about to attach.                                                        *)
Reading(c) ==
    /\ load[c].old = defines
    /\ load[c].todo \subseteq DOMAIN load[c].new
    /\ load[c].gone \cap DOMAIN load[c].new = {}
    /\ at[c] \in Visiting => load[c].cur \in load[c].todo /\ load[c].n <= Len(Def(c).appenders)
    /\ at[c] = "goneClear" => load[c].cur \notin DOMAIN load[c].new
    /\ at[c] \in Adding =>
        /\ job[c].lg = load[c].cur /\ job[c].ap \in Objects
        /\ load[c].n # 0
        /\ appender[job[c].ap].file = Def(c).appenders[load[c].n].file

(* The loggers that a load has still to do, and how many appenders it has  *)
(* attached to cur.                                                        *)
Pending(c) ==
    load[c].todo \cup load[c].gone \cup (IF at[c] = "goneClear" THEN {load[c].cur} ELSE {})
Filled(c) == IF at[c] = "confAdd" THEN load[c].n ELSE load[c].n - 1

(* cur has the first appenders of its new definition; the loggers that are *)
(* pending are as they were defined, the others as they are.               *)
Half(c, l) == at[c] \in Filling /\ l = load[c].cur
Reached(c) ==
    \A l \in Names :
        /\ Half(c, l) => StandFor(l, Def(c).appenders, Filled(c))
        /\ ~Half(c, l) /\ l \in Pending(c) => Accords(l, defines)
        /\ ~Half(c, l) /\ l \notin Pending(c) => Accords(l, load[c].new)

(* The invariant of reloading: NoStaleAppenders says nothing about a load  *)
(* that is under way, whose end it describes.                              *)
Reloads ==
    /\ \A c \in Loaders : load[c] # NoLoad => Reading(c) /\ Reached(c)
    /\ NoStaleAppenders
    /\ \A t \in Threads : at[t] \in Adding /\ load[t] = NoLoad => job[t].ap = UserAppender

(* A list agrees with the same definitions as long as the listener adds no *)
(* appender,                                                               *)
LEMMA AccordsKept ==
    ASSUME LInv, ObjectsSingle, NEW t \in Threads, Begin(t) \/ Continue(t),
           ~AddEnd(t) \/ job[t].ap \notin Objects, NEW l \in Names, NEW defs, Accords(l, defs)
    PROVE  Accords(l, defs)'
<1>1. CASE l \in DOMAIN defs /\ StandFor(l, defs[l].appenders, Len(defs[l].appenders))
  <2>1. PICK e, n : e = defs[l].appenders /\ n = Len(defs[l].appenders)  OBVIOUS
  <2>2. StandFor(l, e, n)'  BY <1>1, <2>1, StandsKept
  <2> QED  BY <1>1, <2>1, <2>2 DEF Accords
<1>2. CASE Made(l) = {}
  <2>1. Made(l)' = {} \/ SameObjects(logger'[l].appenders, logger[l].appenders)  BY ObjectsKept
  <2>2. Made(l)' = {}  BY <1>2, <2>1 DEF SameObjects, Made
  <2> QED  BY <2>2 DEF Accords
<1> QED  BY <1>1, <1>2 DEF Accords

(* and as long as it adds one to another list.                             *)
LEMMA AccordsElsewhere ==
    ASSUME LInv, NEW t \in Threads, AddEnd(t), NEW l \in Names \ {job[t].lg}, NEW defs,
           Accords(l, defs)
    PROVE  Accords(l, defs)'
<1> USE DEF LInv, Shape, LoggersOK, LoggerOK, LoggerFields
<1>1. CASE l \in DOMAIN defs /\ StandFor(l, defs[l].appenders, Len(defs[l].appenders))
  <2>1. PICK e, n : e = defs[l].appenders /\ n = Len(defs[l].appenders)  OBVIOUS
  <2>2. StandFor(l, e, n)'  BY <1>1, <2>1, StandsElsewhere
  <2> QED  BY <1>1, <2>1, <2>2 DEF Accords
<1>2. CASE Made(l) = {}
  <2>1. logger'[l].appenders = logger[l].appenders  BY DEF AddEnd
  <2> QED  BY <1>2, <2>1 DEF Accords, Made
<1> QED  BY <1>1, <1>2 DEF Accords

(* The steps of a load: LoadBegin(), LoadContinue(), and the listener's    *)
(* addAppender().  All others leave loads and definitions alone.           *)
PartOfLoad(t) ==
    \/ \E doc \in Docs : LoadBegin(t, doc)
    \/ LoadContinue(t)
    \/ AddEnd(t) /\ job[t].ap \in Objects

(* Steps that are not part of a load leave loads and definitions alone. A  *)
(* listener that waits for a lock, or passes a formatter on, goes on with  *)
(* the same logger; a user attaches no appender but the user's own.        *)
LEMMA AsideSteps ==
    ASSUME LInv, NEW t \in Threads, Begin(t) \/ Continue(t), ~PartOfLoad(t)
    PROVE  /\ load' = load /\ defines' = defines
           /\ load[t] # NoLoad /\ ~AddEnd(t) =>
                /\ at[t] # "goneClear" /\ at'[t] # "goneClear"
                /\ at[t] # "confAdd" /\ at'[t] # "confAdd"
                /\ at'[t] \in Visiting => at[t] \in Visiting
                /\ at[t] \in Adding <=> at'[t] \in Adding
                /\ at[t] \in Adding => job'[t].lg = job[t].lg /\ job'[t].ap = job[t].ap
           /\ load[t] = NoLoad /\ at'[t] \in Adding =>
                \/ at[t] \in Adding /\ job'[t].ap = job[t].ap
                \/ job'[t].ap = UserAppender
<1> USE DEF LInv, Shape, DomainsOK, JobsOK, Go, Visiting, Filling, Adding
<1> JobOK(job[t])  OBVIOUS
<1> Stage(t)  BY DEF Stages
<1>1. CASE LogStep(t)
  BY <1>1 DEF LogStep, LogLevel, LogLock, LogEnd, LogStdout, LogFile, LogReopen, LogStamp, LogWrite, Return, objVars
<1>2. CASE \E l \in Names : LogBegin(t, l)  BY <1>2 DEF LogBegin, Stage
<1>3. CASE UserSection(t)  BY <1>3 DEF UserSection, UserCall, Stage
<1>4. CASE DumpBegin(t) \/ \E l \in Names : AddBegin(t, l) \/ \E p \in UserPatterns : FmtBegin(t, l, p)
  <2>1. load' = load /\ defines' = defines /\ load[t] = NoLoad
    BY <1>4 DEF DumpBegin, AddBegin, FmtBegin, UserCall, Stage
  <2>2. CASE \E l \in Names : AddBegin(t, l)
    <3>1. job'[t].ap = UserAppender  BY <2>2 DEF AddBegin, NoJob
    <3> QED  BY <2>1, <3>1
  <2>3. CASE DumpBegin(t) \/ \E l \in Names : \E p \in UserPatterns : FmtBegin(t, l, p)
    <3>1. at'[t] \notin Adding  BY <2>3 DEF DumpBegin, FmtBegin
    <3> QED  BY <2>1, <3>1
  <2> QED  BY <1>4, <2>2, <2>3
<1>5. CASE AddLock(t)
  <2>1. PICK b : b = (appender[job[t].ap].formatter # Null)  OBVIOUS
  <2>2. job' = [job EXCEPT ![t].has = b]  BY <1>5, <2>1 DEF AddLock
  <2> QED  BY <1>5, <2>2 DEF AddLock, JobOK, JobFields
<1>6. CASE AddEnd(t)  BY <1>6 DEF AddEnd, Return, PartOfLoad
<1>7. CASE FmtLock(t)  BY <1>7 DEF FmtLock
<1>8. CASE FmtEach(t)  BY <1>8 DEF FmtEach
<1>9. CASE FmtEnd(t)  BY <1>9 DEF FmtEnd, Return
<1>10. CASE DumpOne(t) \/ DumpEnd(t)  BY <1>10 DEF DumpOne, DumpEnd, Stage
<1> QED
  BY <1>1, <1>2, <1>3, <1>4, <1>5, <1>6, <1>7, <1>8, <1>9, <1>10
     DEF Begin, Continue, UserBegin, UserContinue, PartOfLoad

(* Definitions that have become those of the variable, and of a load.      *)
LEMMA AccordsNow ==
    ASSUME NEW l, NEW c, NEW defs
    PROVE  /\ defs = defines' => (Accords(l, defs)' <=> Accords(l, defines)')
           /\ defs = load'[c].new => (Accords(l, defs)' <=> Accords(l, load[c].new)')
<1>1. defs = defines' => (Accords(l, defs)' <=> Accords(l, defines)')
  BY DEF Accords, StandFor
<1>2. defs = load'[c].new => (Accords(l, defs)' <=> Accords(l, load[c].new)')
  BY DEF Accords, StandFor
<1> QED  BY <1>1, <1>2

(* A list that stands for the entries that the load has reached.           *)
LEMMA StandsNow ==
    ASSUME NEW l, NEW c, NEW e, NEW n, e = (Def(c).appenders)', n = Filled(c)', StandFor(l, e, n)'
    PROVE  StandFor(l, Def(c).appenders, Filled(c))'
BY DEF StandFor

(* What is known of a load stays known while the load, its place and the   *)
(* lists of its loggers stay the same.                                     *)
LEMMA LoadFrame ==
    ASSUME NEW c \in Loaders, Reading(c), Reached(c), load'[c] = load[c], defines' = defines,
           at[c] = "goneClear" <=> at'[c] = "goneClear",
           at[c] = "confAdd" <=> at'[c] = "confAdd",
           at'[c] \in Visiting => at[c] \in Visiting,
           at[c] \in Adding <=> at'[c] \in Adding,
           at[c] \in Adding =>
                /\ job'[c].lg = job[c].lg /\ job'[c].ap = job[c].ap
                /\ appender'[job[c].ap].file = appender[job[c].ap].file,
           \A l \in Names : \A e, n : StandFor(l, e, n) => StandFor(l, e, n)',
           \A l \in Names : \A defs : Accords(l, defs) => Accords(l, defs)'
    PROVE  Reading(c)' /\ Reached(c)'
<1>1. PICK d, e, k : d = load[c] /\ e = Def(c).appenders /\ k = Filled(c)  OBVIOUS
<1>2. d = load'[c] /\ e = (Def(c).appenders)'  BY <1>1 DEF Def
<1>3. Reading(c)'  BY <1>1, <1>2 DEF Reading, Def, Filling
<1>4. (at'[c] \in Filling <=> at[c] \in Filling) /\ k = Filled(c)' /\ Pending(c)' = Pending(c)
  BY <1>1, <1>2 DEF Filling, Filled, Pending
<1>5. ASSUME NEW l \in Names
      PROVE  /\ Half(c, l)' => StandFor(l, Def(c).appenders, Filled(c))'
             /\ ~Half(c, l)' /\ (l \in Pending(c))' => Accords(l, defines)'
             /\ ~Half(c, l)' /\ (l \notin Pending(c))' => Accords(l, load[c].new)'
  <2>1. Half(c, l)' <=> Half(c, l)  BY <1>1, <1>2, <1>4 DEF Half
  <2>2. Half(c, l) => StandFor(l, e, k)'  BY <1>1 DEF Reached
  <2>3. PICK f, g : f = defines /\ g = d.new  OBVIOUS
  <2>4. /\ ~Half(c, l) /\ l \in Pending(c) => Accords(l, f)'
        /\ ~Half(c, l) /\ l \notin Pending(c) => Accords(l, g)'
    BY <1>1, <2>3 DEF Reached
  <2>5. StandFor(l, e, k)' => StandFor(l, Def(c).appenders, Filled(c))'
    BY <1>2, <1>4, StandsNow
  <2>6. Accords(l, f)' => Accords(l, defines)'
    <3>1. f = defines'  BY <2>3
    <3> QED  BY <3>1, AccordsNow
  <2>7. Accords(l, g)' => Accords(l, load[c].new)'
    <3>1. g = load'[c].new  BY <1>2, <2>3
    <3> QED  BY <3>1, AccordsNow
  <2> QED  BY <1>4, <2>1, <2>2, <2>4, <2>5, <2>6, <2>7
<1> QED  BY <1>3, <1>5 DEF Reached

(* Steps that are not part of a load.                                      *)
LEMMA ReloadsAside ==
    ASSUME LInv, ObjectsSingle, Reloads, NEW t \in Threads, Begin(t) \/ Continue(t), ~PartOfLoad(t)
    PROVE  Reloads'
<1>1. /\ load' = load /\ defines' = defines
      /\ load[t] # NoLoad /\ ~AddEnd(t) =>
            /\ at[t] # "goneClear" /\ at'[t] # "goneClear"
            /\ at[t] # "confAdd" /\ at'[t] # "confAdd"
            /\ at'[t] \in Visiting => at[t] \in Visiting
            /\ at[t] \in Adding <=> at'[t] \in Adding
            /\ at[t] \in Adding => job'[t].lg = job[t].lg /\ job'[t].ap = job[t].ap
      /\ load[t] = NoLoad /\ at'[t] \in Adding =>
            \/ at[t] \in Adding /\ job'[t].ap = job[t].ap
            \/ job'[t].ap = UserAppender
  BY AsideSteps
<1>2. \A u \in Threads \ {t} : at'[u] = at[u] /\ job'[u] = job[u]
  BY ThreadLInv DEF Untouched
<1>3. ~AddEnd(t) \/ job[t].ap \notin Objects  BY DEF PartOfLoad
<1>4. \A l \in Names : \A e, n : StandFor(l, e, n) => StandFor(l, e, n)'  BY <1>3, StandsKept
<1>5. \A l \in Names : \A defs : Accords(l, defs) => Accords(l, defs)'  BY <1>3, AccordsKept
<1>6. ASSUME NEW c \in Loaders, load[c] # NoLoad PROVE Reading(c)' /\ Reached(c)'
  <2>1. Reading(c) /\ Reached(c)  BY <1>6 DEF Reloads
  <2>2. AddEnd(t) => c # t  BY <1>3, <2>1 DEF AddEnd, Reading, Adding
  <2>3. ASSUME at[c] \in Adding
        PROVE  appender'[job[c].ap].file = appender[job[c].ap].file
    <3>1. PICK a : a = job[c].ap  OBVIOUS
    <3>2. a \in Objects /\ a \in Appenders /\ c \in Threads
      BY <2>1, <2>3, <3>1 DEF Reading, Appenders, Threads
    <3>3. \A k \in Names : ~In(a, k)  BY <2>3, <3>1, <3>2 DEF ObjectsSingle, SingleIn
    <3>4. ~ConfMake(t)  BY DEF PartOfLoad, LoadContinue
    <3>5. ASSUME NEW k \in Names, Cleared(k) PROVE appender'[a].file = appender[a].file
      BY <3>2, <3>3, <3>5 DEF Cleared, Destroyed, In
    <3>6. appender'[a].file = appender[a].file  BY <3>2, <3>4, <3>5, FileChange
    <3> QED  BY <3>1, <3>6
  <2>4. /\ at[c] = "goneClear" <=> at'[c] = "goneClear"
        /\ at[c] = "confAdd" <=> at'[c] = "confAdd"
        /\ at'[c] \in Visiting => at[c] \in Visiting
        /\ at[c] \in Adding <=> at'[c] \in Adding
        /\ at[c] \in Adding => job'[c].lg = job[c].lg /\ job'[c].ap = job[c].ap
    BY <1>1, <1>2, <1>6, <2>2 DEF Threads
  <2> QED  BY <1>1, <1>4, <1>5, <2>1, <2>3, <2>4, LoadFrame
<1>7. NoStaleAppenders'
  <2> SUFFICES ASSUME \A c \in Loaders : load[c] = NoLoad, NEW l \in Names
               PROVE  Accords(l, defines)'
    BY <1>1 DEF NoStaleAppenders, Accords
  <2>1. PICK f : f = defines  OBVIOUS
  <2>2. Accords(l, f)  BY <2>1 DEF Reloads, NoStaleAppenders, Accords
  <2>3. Accords(l, f)'  BY <1>5, <2>2
  <2> QED  BY <1>1, <2>1, <2>3 DEF Accords, StandFor
<1>8. ASSUME NEW u \in Threads, at'[u] \in Adding, load'[u] = NoLoad PROVE job'[u].ap = UserAppender
  BY <1>1, <1>2, <1>8 DEF Reloads
<1> QED  BY <1>1, <1>6, <1>7, <1>8 DEF Reloads

(* A step of the only loader.                                              *)
LEMMA LoaderStep ==
    ASSUME OneLoader, LInv, LInv', Reloads, NEW t \in Threads, Begin(t) \/ Continue(t),
           load'[t] # NoLoad, Reading(t)', Reached(t)'
    PROVE  Reloads'
<1>1. t \in Loaders  BY DEF LInv, Stages, Stage
<1>2. \A c \in Loaders : c = t  BY <1>1 DEF OneLoader
<1>3. NoStaleAppenders'  BY <1>1 DEF NoStaleAppenders
<1>4. \A u \in Threads \ {t} : at'[u] = at[u] /\ job'[u] = job[u] /\ load'[u] = load[u]
  BY ThreadLInv DEF Untouched
<1>5. \A u \in Threads : at'[u] \in Adding /\ load'[u] = NoLoad => job'[u].ap = UserAppender
  BY <1>4 DEF Reloads
<1> QED  BY <1>2, <1>3, <1>5 DEF Reloads

(* A load that does not come to a logger whose list is half filled, and    *)
(* does with some of the pending ones.                                     *)
LEMMA ReachedPending ==
    ASSUME LInv, ObjectsSingle, NEW t \in Threads, Begin(t) \/ Continue(t), ~AddEnd(t),
           Reached(t), at[t] \notin Filling, at'[t] \notin Filling,
           load'[t].new = load[t].new, defines' = defines,
           Pending(t)' \subseteq Pending(t),
           \A l \in Names : l \in Pending(t) /\ (l \notin Pending(t))' => Accords(l, load[t].new)'
    PROVE  Reached(t)'
<1>1. PICK f, g : f = defines /\ g = load[t].new  OBVIOUS
<1>2. f = defines' /\ g = load'[t].new  BY <1>1
<1>3. ASSUME NEW l \in Names
      PROVE  /\ (l \in Pending(t))' => Accords(l, defines)'
             /\ (l \notin Pending(t))' => Accords(l, load[t].new)'
  <2>1. l \in Pending(t) => Accords(l, f)  BY <1>1 DEF Reached, Half
  <2>2. l \notin Pending(t) => Accords(l, g)  BY <1>1 DEF Reached, Half
  <2>3. l \in Pending(t) => Accords(l, f)'  BY <2>1, AccordsKept
  <2>4. l \notin Pending(t) => Accords(l, g)'  BY <2>2, AccordsKept
  <2>5. l \in Pending(t) => Accords(l, defines)'  BY <1>2, <2>3, AccordsNow
  <2>6. l \notin Pending(t) => Accords(l, load[t].new)'  BY <1>2, <2>4, AccordsNow
  <2> QED  BY <2>5, <2>6
<1> QED  BY <1>3 DEF Reached, Half

(* A new name is passed over: no listener has made appenders for it.       *)
LEMMA ReloadsNew ==
    ASSUME OneLoader, LInv, LInv', ObjectsSingle, Reloads, NEW t \in Threads, ConfNew(t)
    PROVE  Reloads'
<1> USE DEF LInv, Shape, DomainsOK, LoadsOK
<1>1. PICK d, l : d = load[t] /\ l = NextName(t)  OBVIOUS
<1>2. LoadOK(d) /\ d # NoLoad /\ d.old # d.new /\ t \in Loaders
  BY <1>1 DEF ConfNew, Stages, Stage, Loading
<1>3. Reading(t) /\ Reached(t)  BY <1>1, <1>2 DEF Reloads
<1>4. l \in d.todo /\ l \in Names
  BY <1>1, <1>2, MinIsIn, NamesAssumption DEF ConfNew, NextName, LoadOK
<1>5. l \notin DOMAIN defines  BY <1>1, <1>3 DEF ConfNew, Reading
<1>6. PICK e : e = [d EXCEPT !.todo = @ \ {l}]  OBVIOUS
<1>7. load'[t] = e  BY <1>1, <1>2, <1>6 DEF ConfNew, NextName, LoadOK, LoadFields
<1>8. e.old = d.old /\ e.new = d.new /\ e.cur = d.cur /\ e.todo = d.todo \ {l} /\ e.gone = d.gone
  BY <1>2, <1>6 DEF LoadOK, LoadFields
<1>9. load'[t] # NoLoad  BY <1>2, <1>7, <1>8 DEF NoLoad
<1>10. at' = at /\ at[t] = "conf" /\ defines' = defines  BY DEF ConfNew
<1>11. Reading(t)'  BY <1>1, <1>3, <1>7, <1>8, <1>10 DEF Reading, Visiting, Filling, Adding
<1>12. Pending(t) = d.todo \cup d.gone /\ Pending(t)' = e.todo \cup e.gone
  BY <1>1, <1>7, <1>10 DEF Pending
<1>13. l \notin d.gone  BY <1>1, <1>3, <1>4 DEF Reading
<1>14. Begin(t) \/ Continue(t)  BY DEF Continue, LoadContinue
<1>15. ~AddEnd(t) /\ at[t] \notin Filling /\ at'[t] \notin Filling
  BY <1>10 DEF AddEnd, Filling, Adding
<1>16. Accords(l, load[t].new)'
  <2>1. Accords(l, defines)  BY <1>3, <1>4, <1>12, <1>15 DEF Reached, Half
  <2>2. Made(l) = {}  BY <1>5, <2>1 DEF Accords
  <2>3. logger' = logger  BY DEF ConfNew
  <2> QED  BY <2>2, <2>3 DEF Accords, Made
<1>17. Reached(t)'
  <2>1. load'[t].new = load[t].new  BY <1>1, <1>7, <1>8
  <2>2. Pending(t)' \subseteq Pending(t)  BY <1>8, <1>12
  <2>3. \A k \in Names : k \in Pending(t) /\ (k \notin Pending(t))' => k = l  BY <1>8, <1>12
  <2>4. \A k \in Names : k \in Pending(t) /\ (k \notin Pending(t))' => Accords(k, load[t].new)'
    BY <1>16, <2>3
  <2> QED  BY <1>3, <1>10, <1>14, <1>15, <2>1, <2>2, <2>4, ReachedPending
<1> QED  BY <1>9, <1>11, <1>14, <1>17, LoaderStep

(* A definition that is the same ends the run.                             *)
LEMMA ReloadsSame ==
    ASSUME Reloads, NEW t \in Threads, ConfSame(t)
    PROVE  Reloads'
<1>1. UNCHANGED <<logger, appender, at, job, load, defines>>  BY DEF ConfSame, objVars
<1>2. \A c \in Loaders : Reading(c)' <=> Reading(c)  BY <1>1 DEF Reading, Def
<1>3. \A c \in Loaders : Reached(c)' <=> Reached(c)
  BY <1>1 DEF Reached, Half, Def, Filled, Pending, Accords, StandFor, Made
<1>4. NoStaleAppenders' <=> NoStaleAppenders
  BY <1>1 DEF NoStaleAppenders, StandFor, Made
<1> QED  BY <1>1, <1>2, <1>3, <1>4 DEF Reloads

(* The listener turns to a logger whose definition has changed; its list   *)
(* is still the old one.                                                   *)
LEMMA ReloadsChanged ==
    ASSUME OneLoader, LInv, LInv', ObjectsSingle, Reloads, NEW t \in Threads, ConfChanged(t)
    PROVE  Reloads'
<1> USE DEF LInv, Shape, DomainsOK, LoadsOK
<1>1. PICK d, l : d = load[t] /\ l = NextName(t)  OBVIOUS
<1>2. LoadOK(d) /\ d # NoLoad /\ d.old # d.new /\ t \in Loaders
  BY <1>1 DEF ConfChanged, Stages, Stage, Loading
<1>3. Reading(t) /\ Reached(t)  BY <1>1, <1>2 DEF Reloads
<1>4. l \in d.todo
  BY <1>1, <1>2, MinIsIn, NamesAssumption DEF ConfChanged, NextName, LoadOK
<1>6. PICK e : e = [d EXCEPT !.cur = l, !.n = 0]  OBVIOUS
<1>7. load'[t] = e  BY <1>1, <1>2, <1>6 DEF ConfChanged, LoadOK, LoadFields
<1>8. /\ e.old = d.old /\ e.new = d.new /\ e.cur = l /\ e.todo = d.todo /\ e.gone = d.gone
      /\ e.n = 0 /\ 0 <= Len((Def(t).appenders)')
  BY <1>2, <1>6 DEF LoadOK, LoadFields
<1>9. load'[t] # NoLoad  BY <1>2, <1>7, <1>8 DEF NoLoad
<1>10. at'[t] \in {"fmtLock", "confClear"} /\ at[t] = "conf" /\ defines' = defines
  BY DEF ConfChanged, Go
<1>11. Reading(t)'  BY <1>1, <1>3, <1>4, <1>7, <1>8, <1>10 DEF Reading, Visiting, Filling, Adding
<1>12. Pending(t) = d.todo \cup d.gone /\ Pending(t)' = e.todo \cup e.gone
  BY <1>1, <1>7, <1>10 DEF Pending
<1>14. Begin(t) \/ Continue(t)  BY DEF Continue, LoadContinue
<1>15. ~AddEnd(t) /\ at[t] \notin Filling /\ at'[t] \notin Filling
  BY <1>10 DEF AddEnd, Filling, Adding
<1>17. Reached(t)'
  <2>1. load'[t].new = load[t].new  BY <1>1, <1>7, <1>8
  <2>2. Pending(t)' = Pending(t)  BY <1>8, <1>12
  <2> QED  BY <1>3, <1>10, <1>14, <1>15, <2>1, <2>2, ReachedPending
<1> QED  BY <1>9, <1>11, <1>14, <1>17, LoaderStep

(* The listener turns to a logger that is no longer defined.               *)
LEMMA ReloadsGone ==
    ASSUME OneLoader, LInv, LInv', ObjectsSingle, Reloads, NEW t \in Threads, ConfGone(t)
    PROVE  Reloads'
<1> USE DEF LInv, Shape, DomainsOK, LoadsOK
<1>1. PICK d, l : d = load[t] /\ l = Min(load[t].gone)  OBVIOUS
<1>2. LoadOK(d) /\ d # NoLoad /\ d.old # d.new /\ t \in Loaders
  BY <1>1 DEF ConfGone, Stages, Stage, Loading
<1>3. Reading(t) /\ Reached(t)  BY <1>1, <1>2 DEF Reloads
<1>4. l \in d.gone
  BY <1>1, <1>2, MinIsIn, NamesAssumption DEF ConfGone, LoadOK
<1>6. PICK e : e = [d EXCEPT !.cur = l, !.gone = @ \ {l}]  OBVIOUS
<1>7. load'[t] = e  BY <1>1, <1>2, <1>6 DEF ConfGone, LoadOK, LoadFields
<1>8. e.old = d.old /\ e.new = d.new /\ e.cur = l /\ e.todo = d.todo /\ e.gone = d.gone \ {l}
  BY <1>2, <1>6 DEF LoadOK, LoadFields
<1>9. load'[t] # NoLoad  BY <1>2, <1>7, <1>8 DEF NoLoad
<1>10. at'[t] = "goneClear" /\ at[t] = "conf" /\ defines' = defines
  BY DEF ConfGone, Go
<1>11. Reading(t)'  BY <1>1, <1>3, <1>4, <1>7, <1>8, <1>10 DEF Reading, Visiting, Filling, Adding
<1>12. Pending(t) = d.todo \cup d.gone /\ Pending(t)' = e.todo \cup e.gone \cup {l}
  BY <1>1, <1>7, <1>8, <1>10 DEF Pending
<1>14. Begin(t) \/ Continue(t)  BY DEF Continue, LoadContinue
<1>15. ~AddEnd(t) /\ at[t] \notin Filling /\ at'[t] \notin Filling
  BY <1>10 DEF AddEnd, Filling, Adding
<1>17. Reached(t)'
  <2>1. load'[t].new = load[t].new  BY <1>1, <1>7, <1>8
  <2>2. Pending(t)' = Pending(t)  BY <1>4, <1>8, <1>12
  <2> QED  BY <1>3, <1>10, <1>14, <1>15, <2>1, <2>2, ReachedPending
<1> QED  BY <1>9, <1>11, <1>14, <1>17, LoaderStep

(* clearAppenders() of the logger that the listener has turned to: it is   *)
(* done with when it is no longer defined, and about to be filled when it  *)
(* has changed.                                                            *)
LEMMA ReloadsClear ==
    ASSUME OneLoader, LInv, LInv', ObjectsSingle, Reloads, NEW t \in Threads, ConfClear(t)
    PROVE  Reloads'
<1> USE DEF LInv, Shape, DomainsOK, LoadsOK
<1>1. PICK d, l : d = load[t] /\ l = d.cur  OBVIOUS
<1>2. LoadOK(d) /\ d # NoLoad /\ d.old # d.new /\ t \in Loaders /\ l \in Names
  BY <1>1 DEF ConfClear, Stages, Stage, Loading, LoadOK
<1>3. Reading(t) /\ Reached(t)  BY <1>1, <1>2 DEF Reloads
<1>4. load' = load /\ job' = job /\ defines' = defines /\ load'[t] # NoLoad
  BY <1>1, <1>2 DEF ConfClear
<1>5. Made(l)' = {}
  <2>1. logger'[l].appenders = << >>
    BY <1>1, <1>2 DEF ConfClear, Cleared, LoggersOK, LoggerOK, LoggerFields
  <2> QED  BY <2>1 DEF Made, Range
<1>6. Begin(t) \/ Continue(t)  BY DEF Continue, LoadContinue
<1>7. ~AddEnd(t) /\ at[t] \notin Filling  BY DEF ConfClear, AddEnd, Filling, Adding
<1>8. CASE at[t] = "goneClear"
  <2>1. at'[t] = "conf"  BY <1>8 DEF ConfClear, Go
  <2>2. at'[t] \notin Filling  BY <2>1 DEF Filling, Adding
  <2>3. Reading(t)'  BY <1>3, <1>4, <2>1 DEF Reading, Visiting, Filling, Adding
  <2>4. Pending(t)' = d.todo \cup d.gone /\ Pending(t) = d.todo \cup d.gone \cup {l}
    BY <1>1, <1>4, <1>8, <2>1 DEF Pending
  <2>5. \A k \in Names : k \in Pending(t) /\ (k \notin Pending(t))' => Accords(k, load[t].new)'
    BY <1>5, <2>4 DEF Accords
  <2>6. Reached(t)'  BY <1>3, <1>4, <1>6, <1>7, <2>2, <2>4, <2>5, ReachedPending
  <2> QED  BY <1>4, <1>6, <2>3, <2>6, LoaderStep
<1>9. CASE at[t] = "confClear"
  <2>1. at'[t] = "confAdd" /\ at[t] \in Visiting  BY <1>9 DEF ConfClear, Go, Visiting
  <2>3. Reading(t)'  BY <1>1, <1>3, <1>4, <2>1 DEF Reading, Visiting, Filling, Adding, Def
  <2>4. Pending(t)' = Pending(t)  BY <1>4, <1>9, <2>1 DEF Pending
  <2>5. PICK f, g : f = defines /\ g = load[t].new  OBVIOUS
  <2>6. f = defines' /\ g = load'[t].new  BY <1>4, <2>5
  <2>7. ASSUME NEW k \in Names
        PROVE  /\ Half(t, k)' => StandFor(k, Def(t).appenders, Filled(t))'
               /\ (k \in Pending(t))' => Accords(k, defines)'
               /\ (k \notin Pending(t))' => Accords(k, load[t].new)'
    <3>1. Made(k)' = {} => StandFor(k, Def(t).appenders, Filled(t))'
      <4>1. PICK e, n : e = (Def(t).appenders)' /\ n = Filled(t)'  OBVIOUS
      <4>2. Made(k)' = {} => StandFor(k, e, n)'  BY NoneStandNext
      <4> QED  BY <4>1, <4>2, StandsNow
    <3>2. Half(t, k)' => k = l  BY <1>1, <1>4 DEF Half
    <3>3. /\ k \in Pending(t) => Accords(k, f)
          /\ k \notin Pending(t) => Accords(k, g)
      BY <1>3, <1>7, <2>5 DEF Reached, Half
    <3>4. /\ k \in Pending(t) => Accords(k, f)'
          /\ k \notin Pending(t) => Accords(k, g)'
      BY <1>6, <1>7, <3>3, AccordsKept
    <3> QED  BY <1>5, <2>4, <2>6, <3>1, <3>2, <3>4, AccordsNow
  <2>8. Reached(t)'  BY <2>7 DEF Reached
  <2> QED  BY <1>4, <1>6, <2>3, <2>8, LoaderStep
<1> QED  BY <1>8, <1>9 DEF ConfClear

(* The appender of the next entry is made; the list does not have it yet.  *)
LEMMA ReloadsMake ==
    ASSUME OneLoader, LInv, LInv', ObjectsSingle, Reloads, NEW t \in Threads, ConfMake(t)
    PROVE  Reloads'
<1> USE DEF LInv, Shape, DomainsOK, LoadsOK
<1>1. PICK d, l, e : d = load[t] /\ l = d.cur /\ e = Def(t).appenders  OBVIOUS
<1>2. LoadOK(d) /\ d # NoLoad /\ d.old # d.new /\ t \in Loaders /\ l \in Names /\ d.n \in Nat
  BY <1>1 DEF ConfMake, Stages, Stage, Loading, LoadOK
<1>3. Reading(t) /\ Reached(t)  BY <1>1, <1>2 DEF Reloads
<1>4. at[t] = "confAdd" /\ at'[t] = "addLock" /\ defines' = defines  BY DEF ConfMake, Go
<1>5. at[t] \in Filling /\ at[t] \in Visiting /\ at'[t] \in Filling /\ at'[t] \in Adding
  BY <1>4 DEF Filling, Visiting, Adding
<1>6. PICK x : x = [d EXCEPT !.n = @ + 1]  OBVIOUS
<1>7. load'[t] = x  BY <1>1, <1>2, <1>6 DEF ConfMake, LoadOK, LoadFields
<1>8. /\ x.old = d.old /\ x.new = d.new /\ x.cur = l /\ x.todo = d.todo /\ x.gone = d.gone
      /\ x.n = d.n + 1
  BY <1>1, <1>2, <1>6 DEF LoadOK, LoadFields
<1>9. load'[t] # NoLoad  BY <1>2, <1>7, <1>8 DEF NoLoad
<1>10. e = (Def(t).appenders)'  BY <1>1, <1>7, <1>8 DEF Def
<1>11. PICK a \in Unused : a = Min(Unused)
  BY MinIsIn, AppendersAssumption DEF ConfMake, Unused
<1>12. a \in Objects /\ a \in Appenders  BY DEF Unused, Appenders
<1>13. job'[t].lg = l /\ job'[t].ap = a
  <2>1. JobOK(job[t])  BY DEF JobsOK
  <2>2. job' = [job EXCEPT ![t].lg = l, ![t].ap = a]  BY <1>1, <1>11 DEF ConfMake
  <2> QED  BY <2>1, <2>2 DEF JobsOK, JobOK, JobFields
<1>14. appender'[a].file = e[d.n + 1].file
  <2>1. PICK p, b : appender' = [appender EXCEPT ![a] =
                [own |-> b, formatter |-> p, file |-> e[d.n + 1].file, lastTime |-> 0]]
    BY <1>1, <1>11 DEF ConfMake
  <2> QED  BY <1>12, <2>1 DEF AppendersOK
<1>15. d.n < Len(e)  BY <1>1 DEF ConfMake
<1>16. d.n + 1 <= Len(e) /\ d.n + 1 # 0 /\ (d.n + 1) - 1 = d.n  BY <1>2, <1>15
<1>17. Reading(t)'
  BY <1>1, <1>3, <1>4, <1>5, <1>7, <1>8, <1>10, <1>12, <1>13, <1>14, <1>16 DEF Reading
<1>18. Begin(t) \/ Continue(t)  BY DEF Continue, LoadContinue
<1>19. ~AddEnd(t)  BY <1>4 DEF AddEnd
<1>20. Pending(t)' = Pending(t)  BY <1>1, <1>4, <1>7, <1>8 DEF Pending
<1>21. PICK f, g : f = defines /\ g = load[t].new  OBVIOUS
<1>22. f = defines' /\ g = load'[t].new  BY <1>1, <1>4, <1>7, <1>8, <1>21
<1>23. d.n = Filled(t) /\ d.n = Filled(t)'
  BY <1>1, <1>4, <1>7, <1>8, <1>16 DEF Filled
<1>24. ASSUME NEW k \in Names
       PROVE  /\ Half(t, k)' => StandFor(k, Def(t).appenders, Filled(t))'
              /\ ~Half(t, k)' /\ (k \in Pending(t))' => Accords(k, defines)'
              /\ ~Half(t, k)' /\ (k \notin Pending(t))' => Accords(k, load[t].new)'
  <2>1. (Half(t, k) <=> k = l) /\ (Half(t, k)' <=> k = l)  BY <1>1, <1>5, <1>7, <1>8 DEF Half
  <2>2. k = l => StandFor(k, e, d.n)  BY <1>1, <1>3, <1>23, <2>1 DEF Reached
  <2>3. PICK n : n = d.n  OBVIOUS
  <2>4. k = l => StandFor(k, e, n)'  BY <1>18, <1>19, <2>2, <2>3, StandsKept
  <2>5. k = l => StandFor(k, Def(t).appenders, Filled(t))'
    BY <1>10, <1>23, <2>3, <2>4, StandsNow
  <2>6. /\ k # l /\ k \in Pending(t) => Accords(k, f)
        /\ k # l /\ k \notin Pending(t) => Accords(k, g)
    BY <1>3, <1>21, <2>1 DEF Reached
  <2>7. /\ k # l /\ k \in Pending(t) => Accords(k, f)'
        /\ k # l /\ k \notin Pending(t) => Accords(k, g)'
    BY <1>18, <1>19, <2>6, AccordsKept
  <2> QED  BY <1>20, <1>22, <2>1, <2>5, <2>7, AccordsNow
<1>25. Reached(t)'  BY <1>24 DEF Reached
<1> QED  BY <1>9, <1>17, <1>18, <1>25, LoaderStep

(* All entries have been reached: the list is that of the new definition.  *)
LEMMA ReloadsDone ==
    ASSUME OneLoader, LInv, LInv', ObjectsSingle, Reloads, NEW t \in Threads, ConfDone(t)
    PROVE  Reloads'
<1> USE DEF LInv, Shape, DomainsOK, LoadsOK
<1>1. PICK d, l, e : d = load[t] /\ l = d.cur /\ e = Def(t).appenders  OBVIOUS
<1>2. LoadOK(d) /\ d # NoLoad /\ d.old # d.new /\ t \in Loaders /\ l \in Names /\ d.n \in Nat
  BY <1>1 DEF ConfDone, Stages, Stage, Loading, LoadOK
<1>3. Reading(t) /\ Reached(t)  BY <1>1, <1>2 DEF Reloads
<1>4. at[t] = "confAdd" /\ at'[t] = "conf" /\ defines' = defines  BY DEF ConfDone, Go
<1>5. at[t] \in Filling /\ at[t] \in Visiting /\ at'[t] \notin Filling /\ at'[t] \notin Visiting
  BY <1>4 DEF Filling, Visiting, Adding
<1>6. PICK x : x = [d EXCEPT !.todo = @ \ {l}]  OBVIOUS
<1>7. load'[t] = x  BY <1>1, <1>2, <1>6 DEF ConfDone, LoadOK, LoadFields
<1>8. x.old = d.old /\ x.new = d.new /\ x.cur = l /\ x.todo = d.todo \ {l} /\ x.gone = d.gone
  BY <1>1, <1>2, <1>6 DEF LoadOK, LoadFields
<1>9. load'[t] # NoLoad  BY <1>2, <1>7, <1>8 DEF NoLoad
<1>10. Reading(t)'  BY <1>1, <1>3, <1>4, <1>5, <1>7, <1>8 DEF Reading, Filling, Visiting
<1>11. Begin(t) \/ Continue(t)  BY DEF Continue, LoadContinue
<1>12. ~AddEnd(t)  BY <1>4 DEF AddEnd
<1>13. l \in d.todo /\ l \in DOMAIN d.new /\ l \notin d.gone
  BY <1>1, <1>3, <1>5 DEF Reading
<1>14. Pending(t) = d.todo \cup d.gone /\ Pending(t)' = (d.todo \cup d.gone) \ {l}
  BY <1>1, <1>4, <1>7, <1>8, <1>13 DEF Pending
<1>15. PICK f, g : f = defines /\ g = load[t].new  OBVIOUS
<1>16. f = defines' /\ g = load'[t].new  BY <1>1, <1>4, <1>7, <1>8, <1>15
<1>17. Accords(l, g)
  <2>1. Filled(t) = Len(e) /\ e = g[l].appenders /\ l \in DOMAIN g
    BY <1>1, <1>4, <1>13, <1>15 DEF ConfDone, Filled, Def
  <2>2. StandFor(l, e, Filled(t))  BY <1>1, <1>2, <1>3, <1>5 DEF Reached, Half
  <2> QED  BY <2>1, <2>2 DEF Accords
<1>18. ASSUME NEW k \in Names
       PROVE  /\ (k \in Pending(t))' => Accords(k, defines)'
              /\ (k \notin Pending(t))' => Accords(k, load[t].new)'
  <2>1. Half(t, k) => k = l  BY <1>1 DEF Half
  <2>2. /\ k \in (Pending(t) \ {l}) => Accords(k, f)
        /\ k \notin (Pending(t) \ {l}) => Accords(k, g)
    BY <1>3, <1>15, <1>17, <2>1 DEF Reached
  <2>3. /\ k \in (Pending(t) \ {l}) => Accords(k, f)'
        /\ k \notin (Pending(t) \ {l}) => Accords(k, g)'
    BY <1>11, <1>12, <2>2, AccordsKept
  <2> QED  BY <1>14, <1>16, <2>3, AccordsNow
<1>19. Reached(t)'  BY <1>5, <1>18 DEF Reached, Half
<1> QED  BY <1>9, <1>10, <1>11, <1>19, LoaderStep

(* The listener's addAppender() returns: one more entry has its appender.  *)
LEMMA ReloadsAdded ==
    ASSUME OneLoader, LInv, LInv', ObjectsSingle, Reloads, NEW t \in Threads, AddEnd(t),
           job[t].ap \in Objects
    PROVE  Reloads'
<1> USE DEF LInv, Shape, DomainsOK, LoadsOK
<1>1. PICK d, l, e, n : d = load[t] /\ l = d.cur /\ e = Def(t).appenders /\ n = d.n  OBVIOUS
<1>2. at[t] = "add" /\ at[t] \in Adding /\ at[t] \in Filling /\ at[t] \in Visiting
  BY DEF AddEnd, Adding, Filling, Visiting
<1>3. d # NoLoad  BY <1>1, <1>2, AppendersAssumption DEF Reloads
<1>4. LoadOK(d) /\ t \in Loaders /\ l \in Names /\ n \in Nat
  BY <1>1, <1>3 DEF Stages, Stage, LoadOK
<1>5. Reading(t) /\ Reached(t)  BY <1>1, <1>3, <1>4 DEF Reloads
<1>6. /\ job[t].lg = l /\ n # 0 /\ appender[job[t].ap].file = e[n].file
      /\ l \in d.todo /\ n <= Len(e)
  BY <1>1, <1>2, <1>5 DEF Reading
<1>7. load' = load /\ defines' = defines /\ at'[t] = "confAdd"
  BY <1>1, <1>3 DEF AddEnd, Return, Go
<1>8. at'[t] \in Filling /\ at'[t] \in Visiting /\ at'[t] \notin Adding
  BY <1>7 DEF Adding, Filling, Visiting
<1>9. e = (Def(t).appenders)' /\ load'[t] # NoLoad  BY <1>1, <1>3, <1>7 DEF Def
<1>10. Reading(t)'  BY <1>1, <1>5, <1>6, <1>7, <1>8, <1>9 DEF Reading
<1>11. Begin(t) \/ Continue(t)  BY DEF Continue, UserContinue
<1>12. Pending(t)' = Pending(t)  BY <1>2, <1>7 DEF Pending
<1>13. PICK f, g : f = defines /\ g = load[t].new  OBVIOUS
<1>14. f = defines' /\ g = load'[t].new  BY <1>7, <1>13
<1>15. n - 1 = Filled(t) /\ n = Filled(t)'  BY <1>1, <1>2, <1>7 DEF Filled
<1>16. StandFor(l, e, n - 1)  BY <1>1, <1>2, <1>4, <1>5, <1>15 DEF Reached, Half
<1>17. StandFor(l, e, n)'  BY <1>4, <1>6, <1>16, StandsAdded
<1>18. ASSUME NEW k \in Names
       PROVE  /\ Half(t, k)' => StandFor(k, Def(t).appenders, Filled(t))'
              /\ ~Half(t, k)' /\ (k \in Pending(t))' => Accords(k, defines)'
              /\ ~Half(t, k)' /\ (k \notin Pending(t))' => Accords(k, load[t].new)'
  <2>1. (Half(t, k) <=> k = l) /\ (Half(t, k)' <=> k = l)  BY <1>1, <1>2, <1>7, <1>8 DEF Half
  <2>2. k = l => StandFor(k, Def(t).appenders, Filled(t))'
    BY <1>9, <1>15, <1>17, StandsNow
  <2>3. /\ k # l /\ k \in Pending(t) => Accords(k, f)
        /\ k # l /\ k \notin Pending(t) => Accords(k, g)
    BY <1>5, <1>13, <2>1 DEF Reached
  <2>4. /\ k # l /\ k \in Pending(t) => Accords(k, f)'
        /\ k # l /\ k \notin Pending(t) => Accords(k, g)'
    BY <1>6, <2>3, AccordsElsewhere
  <2> QED  BY <1>12, <1>14, <2>1, <2>2, <2>4, AccordsNow
<1>19. Reached(t)'  BY <1>18 DEF Reached
<1> QED  BY <1>9, <1>10, <1>11, <1>19, LoaderStep

(* A load begins when no other is under way: every list is that of the     *)
(* present definition, and the loggers without an old or a new one have no *)
(* appenders of the listener.                                              *)
LEMMA ReloadsBegin ==
    ASSUME OneLoader, LInv, LInv', ObjectsSingle, Reloads, NEW t \in Threads,
           NEW doc \in Docs, LoadBegin(t, doc)
    PROVE  Reloads'
<1> USE DEF LInv, Shape, DomainsOK, LoadsOK
<1>1. PICK f, g : f = defines /\ g = Definitions(doc)  OBVIOUS
<1>2. t \in Loaders /\ at[t] = "idle" /\ load[t] = NoLoad /\ f # g /\ defines' = f
  BY <1>1 DEF LoadBegin, Stages, Stage
<1>3. \A c \in Loaders : load[c] = NoLoad  BY <1>2 DEF OneLoader
<1>4. at'[t] \in {"log", "conf"}  BY DEF LoadBegin, Go
<1>5. at'[t] \notin Visiting /\ at'[t] \notin Filling /\ at'[t] \notin Adding /\ at'[t] # "goneClear"
  BY <1>4 DEF Visiting, Filling, Adding
<1>6. load'[t] = [old |-> f, new |-> g, cur |-> Root, n |-> 0,
                  todo |-> DOMAIN g, gone |-> DOMAIN f \ DOMAIN g]
  BY <1>1 DEF LoadBegin
<1>7. load'[t] # NoLoad  BY <1>2, <1>6 DEF NoLoad
<1>8. Reading(t)'  BY <1>2, <1>5, <1>6 DEF Reading
<1>9. Begin(t) \/ Continue(t)  BY DEF Begin
<1>10. ~AddEnd(t)  BY <1>2 DEF AddEnd
<1>11. Pending(t)' = DOMAIN g \cup DOMAIN f  BY <1>5, <1>6 DEF Pending
<1>12. g = load'[t].new  BY <1>6
<1>13. ASSUME NEW k \in Names
       PROVE  /\ (k \in Pending(t))' => Accords(k, defines)'
              /\ (k \notin Pending(t))' => Accords(k, load[t].new)'
  <2>1. Accords(k, f)  BY <1>1, <1>3 DEF Reloads, NoStaleAppenders, Accords
  <2>2. k \notin DOMAIN f => Accords(k, g)  BY <2>1 DEF Accords
  <2>3. Accords(k, f)' /\ (k \notin DOMAIN f => Accords(k, g)')
    BY <1>9, <1>10, <2>1, <2>2, AccordsKept
  <2>4. Accords(k, defines)' /\ (k \notin DOMAIN f => Accords(k, load[t].new)')
    BY <1>2, <1>12, <2>3, AccordsNow
  <2> QED  BY <1>11, <2>4
<1>14. Reached(t)'  BY <1>5, <1>13 DEF Reached, Half
<1> QED  BY <1>7, <1>8, <1>9, <1>14, LoaderStep

(* A load ends when no logger is pending: every list is that of the new    *)
(* definition, which becomes the present one.                              *)
LEMMA ReloadsStore ==
    ASSUME OneLoader, LInv, LInv', ObjectsSingle, Reloads, NEW t \in Threads, Store(t)
    PROVE  Reloads'
<1> USE DEF LInv, Shape, DomainsOK, LoadsOK
<1>1. /\ at[t] = "conf" /\ load[t].todo = {} /\ load[t].gone = {}
      /\ at'[t] = "idle" /\ load'[t] = NoLoad /\ defines' = load[t].new
  BY DEF Store, Announced, Go
<1>2. load[t] # NoLoad /\ t \in Loaders  BY <1>1 DEF Stages, Stage, Loading
<1>3. Reached(t)  BY <1>2 DEF Reloads
<1>4. Pending(t) = {} /\ at[t] \notin Filling /\ at'[t] \notin Adding
  BY <1>1 DEF Pending, Filling, Adding
<1>5. Begin(t) \/ Continue(t)  BY DEF Continue, LoadContinue
<1>6. ~AddEnd(t)  BY <1>1 DEF AddEnd
<1>7. PICK g : g = load[t].new  OBVIOUS
<1>8. ASSUME NEW k \in Names PROVE Accords(k, defines)'
  <2>1. Accords(k, g)  BY <1>3, <1>4, <1>7 DEF Reached, Half
  <2>2. Accords(k, g)'  BY <1>5, <1>6, <2>1, AccordsKept
  <2> QED  BY <1>1, <1>7, <2>2, AccordsNow
<1>9. NoStaleAppenders'  BY <1>8 DEF NoStaleAppenders, Accords
<1>10. \A u \in Threads \ {t} : at'[u] = at[u] /\ job'[u] = job[u] /\ load'[u] = load[u]
  BY <1>5, ThreadLInv DEF Untouched
<1>11. \A u \in Threads : at'[u] \in Adding /\ load'[u] = NoLoad => job'[u].ap = UserAppender
  BY <1>4, <1>10 DEF Reloads
<1>12. \A c \in Loaders : load'[c] = NoLoad  BY <1>1, <1>2 DEF OneLoader
<1> QED  BY <1>9, <1>11, <1>12 DEF Reloads

(* Reloads is inductive, given LInv and ObjectsSingle, with one loader.    *)
LEMMA NextReloads ==
    ASSUME OneLoader
    PROVE  LInv /\ LInv' /\ ObjectsSingle /\ Reloads /\ [Next]_vars => Reloads'
<1> SUFFICES ASSUME LInv, LInv', ObjectsSingle, Reloads, [Next]_vars PROVE Reloads'  OBVIOUS
<1>1. CASE Tick \/ UNCHANGED vars
  <2>1. UNCHANGED <<logger, appender, at, job, load, defines>>  BY <1>1 DEF Tick, vars, objVars
  <2>2. \A c \in Loaders : Reading(c)' <=> Reading(c)  BY <2>1 DEF Reading, Def
  <2>3. \A c \in Loaders : Reached(c)' <=> Reached(c)
    BY <2>1 DEF Reached, Half, Def, Filled, Pending, Accords, StandFor, Made
  <2>4. NoStaleAppenders' <=> NoStaleAppenders  BY <2>1 DEF NoStaleAppenders, StandFor, Made
  <2> QED  BY <2>1, <2>2, <2>3, <2>4 DEF Reloads
<1>2. ASSUME NEW t \in Threads, Begin(t) \/ Continue(t) PROVE Reloads'
  <2>1. CASE ~PartOfLoad(t)  BY <1>2, <2>1, ReloadsAside
  <2>2. CASE PartOfLoad(t)
    BY <2>2, ReloadsBegin, ReloadsAdded, ReloadsNew, ReloadsSame, ReloadsChanged, ReloadsClear,
       ReloadsMake, ReloadsDone, ReloadsGone, ReloadsStore DEF PartOfLoad, LoadContinue
  <2> QED  BY <2>1, <2>2
<1> QED  BY <1>1, <1>2 DEF Next

(* The listener has made no appender yet.                                  *)
LEMMA InitReloads == Init => Reloads
<1> SUFFICES ASSUME Init PROVE Reloads  OBVIOUS
<1>1. \A l \in Names : Made(l) = {}
  BY AppendersAssumption DEF Init, Made, Range
<1>2. NoStaleAppenders  BY <1>1 DEF NoStaleAppenders
<1>3. Threads = Threads /\ Loaders \subseteq Threads  BY DEF Threads
<1> QED  BY <1>2, <1>3 DEF Init, Reloads, Adding

(* Once a load is over, the appenders that the listener made for a logger  *)
(* are those of its present definition, each once and in order (log.cc:715 *)
(* clears a logger before it fills it again), whatever other threads log,  *)
(* attach, clear or reformat meanwhile, as long as one thread loads        *)
(* documents.                                                              *)
THEOREM ListsDefined ==
    ASSUME OneLoader PROVE Spec => []NoStaleAppenders
<1>1. Reloads => NoStaleAppenders  BY DEF Reloads
<1> QED
  BY <1>1, InitLInv, NextLInv, InitObjectsSingle, NextObjectsSingle, InitReloads, NextReloads, PTL
     DEF Spec

-----------------------------------------------------------------------------
(* Patterns                                                                *)

(* Find() stops at the first stop after i, or behind the end.              *)
FirstStop(p, i, stops, m) ==
    /\ m \in i + 1 .. Len(p) + 1
    /\ m <= Len(p) => p[m] \in stops
    /\ \A j \in i + 1 .. m - 1 : p[j] \notin stops

(* That is what Find() returns.                                            *)
LEMMA FindStops ==
    ASSUME NEW p \in Seq(Chars), NEW i \in Nat, i <= Len(p), NEW stops
    PROVE  FirstStop(p, i, stops, Find(p, i, stops))
<1>1. PICK stopAt : stopAt = {n \in i + 1 .. Len(p) : p[n] \in stops}  OBVIOUS
<1>2. Len(p) \in Nat /\ stopAt \in SUBSET Nat  BY <1>1
<1>3. CASE stopAt = {}
  <2>1. Find(p, i, stops) = Len(p) + 1  BY <1>1, <1>3 DEF Find
  <2> QED  BY <1>1, <1>2, <1>3, <2>1 DEF FirstStop
<1>4. CASE stopAt # {}
  <2>1. Find(p, i, stops) = Min(stopAt)  BY <1>1, <1>4 DEF Find
  <2>2. PICK m : m = Min(stopAt)  OBVIOUS
  <2>3. m \in stopAt /\ \A y \in stopAt : m <= y  BY <1>2, <1>4, <2>2, MinIsIn
  <2>4. \A j \in i + 1 .. m - 1 : p[j] \notin stops
    <3> SUFFICES ASSUME NEW j \in i + 1 .. m - 1, p[j] \in stops PROVE FALSE  OBVIOUS
    <3>1. j \in stopAt /\ ~(m <= j)  BY <1>1, <1>2, <2>3
    <3> QED  BY <2>3, <3>1
  <2> QED  BY <1>1, <1>2, <2>1, <2>2, <2>3, <2>4 DEF FirstStop
<1> QED  BY <1>3, <1>4

(* There is one first stop.                                                *)
LEMMA FindIs ==
    ASSUME NEW p \in Seq(Chars), NEW i \in Nat, i <= Len(p), NEW stops, NEW m, FirstStop(p, i, stops, m)
    PROVE  Find(p, i, stops) = m
<1>1. PICK f : f = Find(p, i, stops)  OBVIOUS
<1>2. FirstStop(p, i, stops, f)  BY <1>1, FindStops
<1>3. f \in Int /\ m \in Int /\ i \in Int /\ Len(p) \in Nat  BY <1>2 DEF FirstStop
<1>4. ~(f < m)
  <2> SUFFICES ASSUME f < m PROVE FALSE  OBVIOUS
  <2>1. f \in i + 1 .. m - 1 /\ f <= Len(p)  BY <1>2, <1>3 DEF FirstStop
  <2> QED  BY <1>2, <2>1 DEF FirstStop
<1>5. ~(m < f)
  <2> SUFFICES ASSUME m < f PROVE FALSE  OBVIOUS
  <2>1. m \in i + 1 .. f - 1 /\ m <= Len(p)  BY <1>2, <1>3 DEF FirstStop
  <2> QED  BY <1>2, <2>1 DEF FirstStop
<1> QED  BY <1>1, <1>3, <1>4, <1>5

(* The loop, round by round.                                               *)
Begun == [i |-> 1, nstr |-> << >>, items |-> << >>, error |-> FALSE]
RoundOf(p, k, s) == IF k = 0 THEN Begun ELSE Round(p, s)
Loop(p, n, f) == f = [k \in 0 .. n |-> RoundOf(p, k, f[k - 1])]

(* There is such a loop, so Rounds(p) is one.                              *)
LEMMA LoopExists ==
    ASSUME NEW p, NEW n \in Nat
    PROVE  \E f : Loop(p, n, f)
<1> DEFINE Bad == {m \in Nat : ~ \E f : Loop(p, m, f)}
<1>1. CASE Bad = {}  BY <1>1
<1>2. CASE Bad # {}
  <2>1. PICK x \in Bad : \A y \in Bad : x <= y
    <3>1. Bad \in SUBSET Nat  OBVIOUS
    <3> QED  BY <1>2, <3>1, MinIsIn
  <2>2. x \in Nat  BY <2>1
  <2>3. CASE x = 0
    <3>1. PICK f : f = [k \in 0..0 |-> Begun]  OBVIOUS
    <3>2. Loop(p, 0, f)  BY <3>1 DEF Loop, RoundOf
    <3> QED  BY <2>1, <2>3, <3>2
  <2>4. CASE x # 0
    <3>1. x - 1 \in Nat /\ ~(x <= x - 1)  BY <2>2, <2>4
    <3>2. PICK f : Loop(p, x - 1, f)  BY <2>1, <3>1
    <3>3. PICK g : g = [k \in 0..x |-> IF k = x THEN RoundOf(p, x, f[x - 1]) ELSE f[k]]  OBVIOUS
    <3>4. ASSUME NEW k \in 0..x PROVE g[k] = RoundOf(p, k, g[k - 1])
      <4>1. CASE k = x
        <5>1. g[x - 1] = f[x - 1]  BY <2>2, <2>4, <3>1, <3>3
        <5> QED  BY <2>2, <3>3, <4>1, <5>1
      <4>2. CASE k = 0
        <5>1. g[0] = f[0] /\ f[0] = Begun  BY <2>2, <2>4, <3>1, <3>2, <3>3 DEF Loop, RoundOf
        <5> QED  BY <4>2, <5>1 DEF RoundOf
      <4>3. CASE k # x /\ k # 0
        <5>1. k \in 0..(x - 1) /\ k - 1 \in 0..x /\ k - 1 # x  BY <2>2, <4>3
        <5>2. g[k] = f[k] /\ g[k - 1] = f[k - 1]  BY <3>3, <4>3, <5>1
        <5>3. f[k] = RoundOf(p, k, f[k - 1])  BY <3>2, <5>1 DEF Loop
        <5> QED  BY <5>2, <5>3
      <4> QED  BY <4>1, <4>2, <4>3
    <3>5. Loop(p, x, g)
      <4>1. g = [k \in 0..x |-> g[k]]  BY <3>3
      <4> QED  BY <3>4, <4>1 DEF Loop
    <3> QED  BY <2>1, <3>5
  <2> QED  BY <2>3, <2>4
<1> QED  BY <1>1, <1>2

(* Rounds(p) begins at the first character, and goes on by Round.          *)
LEMMA RoundsAre ==
    ASSUME NEW p \in Seq(Chars)
    PROVE  Rounds(p)[0] = Begun /\ \A k \in 1 .. Len(p) : Rounds(p)[k] = Round(p, Rounds(p)[k - 1])
<1>1. PICK f : Loop(p, Len(p), f)  BY LoopExists
<1>2. Loop(p, Len(p), Rounds(p))
  BY <1>1 DEF Rounds, Loop, RoundOf, Begun
<1>3. \A k \in 0 .. Len(p) : Rounds(p)[k] = RoundOf(p, k, Rounds(p)[k - 1])
  BY <1>2 DEF Loop
<1> QED  BY <1>3 DEF RoundOf

(* A round moves forward.                                                  *)
LEMMA RoundText ==
    ASSUME NEW p \in Seq(Chars), NEW s, s.i \in 1 .. Len(p), p[s.i] # "%"
    PROVE  Round(p, s) = [i |-> s.i + 1, nstr |-> Append(s.nstr, p[s.i]), items |-> s.items, error |-> s.error]
BY DEF Round

(* Behind the end a round does nothing.                                    *)
LEMMA RoundEnd ==
    ASSUME NEW p \in Seq(Chars), NEW s, s.i = Len(p) + 1
    PROVE  Round(p, s) = s
<1>1. s.i > Len(p)  OBVIOUS
<1> QED  BY <1>1 DEF Round

(* The reference's keys are those of init().                               *)
LEMMA KeysAre == s_format_items = Key
BY DEF s_format_items, Key

(* The name of a directive that starts at i, and its format.               *)
Named(p, i) == i \in 1 .. Len(p) - 1 /\ p[i] = "%" /\ p[i + 1] \in Keys
Bare(p, i) == Named(p, i) /\ (i + 2 <= Len(p) => p[i + 2] \notin Letters \cup {"{"})
Full(p, i, e) ==
    /\ Named(p, i) /\ e \in i + 3 .. Len(p) /\ p[i + 2] = "{" /\ p[e] = "}"
    /\ \A j \in i + 3 .. e - 1 : p[j] # "}"

(* The name is one letter long.                                            *)
LEMMA NameEnds ==
    ASSUME NEW p \in Seq(Chars), NEW i \in Nat, Named(p, i), i + 2 <= Len(p) => p[i + 2] \notin Letters
    PROVE  Find(p, i, NotLetter) = i + 2
<1>1. i \in Nat /\ i <= Len(p) /\ Len(p) \in Nat  BY DEF Named
<1>2. FirstStop(p, i, NotLetter, i + 2)
  <2>1. i + 2 <= Len(p) => p[i + 2] \in Chars  BY <1>1
  <2>2. \A j \in i + 1 .. (i + 2) - 1 : j = i + 1  BY <1>1
  <2> QED  BY <1>1, <2>1, <2>2 DEF FirstStop, NotLetter, Named, Keys
<1> QED  BY <1>1, <1>2, FindIs

(* The characters from a to b.                                             *)
LEMMA SubSeqIs ==
    ASSUME NEW p \in Seq(Chars), NEW a \in Nat \ {0}, NEW b \in Nat, b <= Len(p), a <= b + 1
    PROVE  /\ SubSeq(p, a, b) \in Seq(Chars) /\ Len(SubSeq(p, a, b)) = b - a + 1
           /\ \A j \in 1 .. b - a + 1 : SubSeq(p, a, b)[j] = p[a + j - 1]
<1>1. \A j \in a .. b : p[j] \in Chars
  <2>1. \A j \in a .. b : j \in 1 .. Len(p)  OBVIOUS
  <2> QED  BY <2>1
<1>2. a \in Int /\ b \in Int  OBVIOUS
<1>3. /\ SubSeq(p, a, b) \in Seq(Chars)
      /\ Len(SubSeq(p, a, b)) = IF a <= b THEN b - a + 1 ELSE 0
      /\ \A j \in 1 .. b - a + 1 : SubSeq(p, a, b)[j] = p[a + j - 1]
  BY <1>1, <1>2, SubSeqProperties
<1>4. a <= b \/ b - a + 1 = 0  OBVIOUS
<1> QED  BY <1>3, <1>4

(* The name is that letter.                                                *)
LEMMA NameIs ==
    ASSUME NEW p \in Seq(Chars), NEW i \in Nat, Named(p, i)
    PROVE  SubSeq(p, i + 1, (i + 2) - 1) = <<p[i + 1]>>
<1>1. i + 1 \in Nat \ {0} /\ i + 1 <= Len(p) /\ i + 1 \in Nat /\ i + 1 <= (i + 1) + 1 /\ (i + 2) - 1 = i + 1
  BY DEF Named
<1>2. i + 1 \in 1 .. Len(p) /\ p[i + 1] \in Chars  BY <1>1
<1>3. PICK t : t = SubSeq(p, i + 1, i + 1)  OBVIOUS
<1>4. /\ t \in Seq(Chars) /\ Len(t) = (i + 1) - (i + 1) + 1
      /\ \A j \in 1 .. (i + 1) - (i + 1) + 1 : t[j] = p[(i + 1) + j - 1]
  BY <1>1, <1>3, SubSeqIs
<1>5. (i + 1) - (i + 1) + 1 = 1 /\ (i + 1) + 1 - 1 = i + 1 /\ 1 \in 1 .. 1  OBVIOUS
<1>6. t \in Seq(Chars) /\ Len(t) = 1 /\ t[1] = p[i + 1]  BY <1>4, <1>5
<1>7. t = <<p[i + 1]>>
  <2>1. <<p[i + 1]>> \in Seq(Chars) /\ Len(<<p[i + 1]>>) = 1  BY <1>2
  <2>2. \A j \in 1 .. Len(t) : t[j] = <<p[i + 1]>>[j]  BY <1>6
  <2> QED  BY <1>6, <2>1, <2>2, SeqEqual
<1> QED  BY <1>1, <1>3, <1>7

(* A key is not an error.                                                  *)
LEMMA DirectiveIs ==
    ASSUME NEW k \in DOMAIN Key, NEW fmt
    PROVE  Directive(<<k>>, fmt) = [items |-> <<Item(k, fmt)>>, error |-> FALSE]
<1>1. Len(<<k>>) = 1 /\ <<k>>[1] = k  OBVIOUS
<1> QED  BY <1>1, KeysAre DEF Directive

(* What a round does at the '%' of a directive.                            *)
Starts(p, i) == i \in 1 .. Len(p) /\ p[i] = "%" /\ ~(i < Len(p) /\ p[i + 1] = "%")

Directed(p, s, last, d) ==
    IF last > Len(p)
    THEN [i |-> s.i + 1, nstr |-> s.nstr, items |-> Append(s.items, Text(<<"pattern_error">>)), error |-> TRUE]
    ELSE [i |-> last + 1, nstr |-> << >>, items |-> s.items \o Flush(s.nstr) \o d.items,
          error |-> s.error \/ d.error]

(* There a round skips the directive, or reports it and goes on behind it. *)
LEMMA RoundDirective ==
    ASSUME NEW p \in Seq(Chars), NEW s, NEW i \in Nat, s.i = i, Starts(p, i),
           NEW n, n = Find(p, i, NotLetter), NEW last, last = LastOf(p, n),
           NEW d, d = Directive(SubSeq(p, i + 1, n - 1), SubSeq(p, n + 1, last - 1))
    PROVE  Round(p, s) = Directed(p, s, last, d)
<1>1. ~(i > Len(p)) /\ ~(p[i] # "%" \/ (i < Len(p) /\ p[i + 1] = "%"))  BY DEF Starts
<1> QED  BY <1>1, Zenon DEF Round, Directed, After

(* A name makes a directive.                                               *)
LEMMA NamedStarts ==
    ASSUME NEW p \in Seq(Chars), NEW i \in Nat, Named(p, i)
    PROVE  Starts(p, i)
<1>1. p[i + 1] # "%"  BY CharsAssumption DEF Named, Keys
<1> QED  BY <1>1 DEF Named, Starts

ItemRound(s, next, key, fmt) ==
    [i |-> next, nstr |-> << >>, items |-> s.items \o Flush(s.nstr) \o <<Item(key, fmt)>>, error |-> s.error \/ FALSE]

(* A directive without a format.                                           *)
LEMMA RoundBare ==
    ASSUME NEW p \in Seq(Chars), NEW s, NEW i \in Nat, s.i = i, Bare(p, i)
    PROVE  Round(p, s) = ItemRound(s, i + 2, p[i + 1], << >>)
<1>1. s.i = i  OBVIOUS
<1>2. Named(p, i) /\ Len(p) \in Nat /\ i + 1 <= Len(p)
  <2>1. Named(p, i)  BY DEF Bare
  <2>2. i \in 1 .. Len(p) - 1  BY <2>1 DEF Named
  <2> QED  BY <2>1, <2>2
<1>3. Find(p, i, NotLetter) = i + 2  BY <1>1, <1>2, NameEnds DEF Bare
<1>4. LastOf(p, i + 2) = (i + 2) - 1  BY <1>1 DEF LastOf, HasFormat, Bare
<1>5. SubSeq(p, i + 1, (i + 2) - 1) = <<p[i + 1]>>  BY <1>2, NameIs
<1>6. SubSeq(p, (i + 2) + 1, ((i + 2) - 1) - 1) = << >>
  <2>1. (i + 2) + 1 \in Int /\ ((i + 2) - 1) - 1 \in Int /\ ((i + 2) - 1) - 1 < (i + 2) + 1  BY <1>2
  <2> QED  BY <2>1, SubSeqEmpty
<1>7. Directive(<<p[i + 1]>>, << >>) = [items |-> <<Item(p[i + 1], << >>)>>, error |-> FALSE]
  BY <1>2, DirectiveIs DEF Named, Keys
<1>8. ~((i + 2) - 1 > Len(p)) /\ ((i + 2) - 1) + 1 = i + 2  BY <1>2
<1>9. Starts(p, i)  BY <1>1, <1>2, NamedStarts
<1>10. PICK d : d = Directive(<<p[i + 1]>>, << >>)  OBVIOUS
<1>11. d.items = <<Item(p[i + 1], << >>)>> /\ d.error = FALSE  BY <1>7, <1>10
<1>12. d = Directive(SubSeq(p, i + 1, (i + 2) - 1), SubSeq(p, (i + 2) + 1, ((i + 2) - 1) - 1))
  BY <1>5, <1>6, <1>10
<1>13. PICK n, m : n = Find(p, i, NotLetter) /\ m = LastOf(p, n)  OBVIOUS
<1>14. n = i + 2 /\ m = (i + 2) - 1  BY <1>3, <1>4, <1>13, Zenon
<1>15. d = Directive(SubSeq(p, i + 1, n - 1), SubSeq(p, n + 1, m - 1))  BY <1>12, <1>14, Zenon
<1>16. Round(p, s) = Directed(p, s, m, d)
  BY <1>1, <1>9, <1>13, <1>15, RoundDirective, ZenonT(60)
<1> QED  BY <1>8, <1>11, <1>14, <1>16, Zenon DEF Directed, ItemRound

(* A directive with a format.                                              *)
LEMMA RoundFull ==
    ASSUME NEW p \in Seq(Chars), NEW s, NEW i \in Nat, s.i = i, NEW e \in Nat, Full(p, i, e)
    PROVE  Round(p, s) = ItemRound(s, e + 1, p[i + 1], SubSeq(p, i + 3, e - 1))
<1>1. s.i = i  OBVIOUS
<1>2. Named(p, i) /\ Len(p) \in Nat /\ i + 3 <= e /\ e <= Len(p) /\ (i + 2) + 1 = i + 3
  <2>1. Named(p, i) /\ e \in i + 3 .. Len(p)  BY DEF Full
  <2> QED  BY <2>1
<1>3. Find(p, i, NotLetter) = i + 2
  <2>1. p[i + 2] \notin Letters  BY <1>1, CharsAssumption DEF Full
  <2> QED  BY <1>2, <2>1, NameEnds
<1>4. Find(p, i + 2, Closing) = e
  <2>1. FirstStop(p, i + 2, Closing, e)
    <3>1. e \in (i + 2) + 1 .. Len(p) + 1  BY <1>2
    <3> QED  BY <1>1, <1>2, <3>1 DEF FirstStop, Full, Closing
  <2>2. i + 2 \in Nat /\ i + 2 <= Len(p)  BY <1>2
  <2> QED  BY <2>1, <2>2, FindIs
<1>5. LastOf(p, i + 2) = e
  <2>1. i + 2 <= Len(p)  BY <1>2
  <2>2. p[i + 2] = "{"  BY DEF Full
  <2> QED  BY <1>4, <2>1, <2>2 DEF LastOf, HasFormat
<1>6. SubSeq(p, i + 1, (i + 2) - 1) = <<p[i + 1]>>  BY <1>2, NameIs
<1>7. PICK w : w = SubSeq(p, i + 3, e - 1)  OBVIOUS
<1>8. Directive(<<p[i + 1]>>, w) = [items |-> <<Item(p[i + 1], w)>>, error |-> FALSE]
  BY <1>2, DirectiveIs DEF Named, Keys
<1>9. ~(e > Len(p))  BY <1>2
<1>10. Starts(p, i)  BY <1>1, <1>2, NamedStarts
<1>11. PICK d : d = Directive(<<p[i + 1]>>, w)  OBVIOUS
<1>12. d.items = <<Item(p[i + 1], w)>> /\ d.error = FALSE  BY <1>8, <1>11
<1>13. d = Directive(SubSeq(p, i + 1, (i + 2) - 1), SubSeq(p, (i + 2) + 1, e - 1))
  BY <1>2, <1>6, <1>7, <1>11, Zenon
<1>14. PICK n, m : n = Find(p, i, NotLetter) /\ m = LastOf(p, n)  OBVIOUS
<1>15. n = i + 2 /\ m = e  BY <1>3, <1>5, <1>14, Zenon
<1>16. d = Directive(SubSeq(p, i + 1, n - 1), SubSeq(p, n + 1, m - 1))  BY <1>13, <1>15, Zenon
<1>17. Round(p, s) = Directed(p, s, m, d)
  BY <1>1, <1>10, <1>14, <1>16, RoundDirective
<1> QED  BY <1>7, <1>9, <1>12, <1>15, <1>17, Zenon DEF Directed, ItemRound

(* A directive that is read without an error has a name, and its format    *)
(* ends.                                                                   *)
LEMMA RoundCases ==
    ASSUME NEW p \in Seq(Chars), NEW s, NEW i \in Nat, s.i = i, Starts(p, i), ~Round(p, s).error
    PROVE  Bare(p, i) \/ \E e \in Nat : Full(p, i, e)
<1>1. PICK n, m : n = Find(p, i, NotLetter) /\ m = LastOf(p, n)  OBVIOUS
<1>2. PICK str, fmt : str = SubSeq(p, i + 1, n - 1) /\ fmt = SubSeq(p, n + 1, m - 1)  OBVIOUS
<1>3. PICK d : d = Directive(str, fmt)  OBVIOUS
<1>4. Round(p, s) = Directed(p, s, m, d)  BY <1>1, <1>2, <1>3, RoundDirective
<1>5. ~(m > Len(p)) /\ ~d.error
  <2>1. ~Directed(p, s, m, d).error  BY <1>4
  <2> QED  BY <2>1 DEF Directed
<1>6. Len(str) = 1 /\ str[1] \in DOMAIN Key  BY <1>3, <1>5, KeysAre DEF Directive
<1>7. i \in 1 .. Len(p) /\ Len(p) \in Nat /\ i <= Len(p)  BY DEF Starts
<1>8. FirstStop(p, i, NotLetter, n)  BY <1>1, <1>7, FindStops
<1>9. n \in Nat /\ i + 1 <= n /\ n <= Len(p) + 1 /\ n - 1 \in Nat  BY <1>7, <1>8 DEF FirstStop
<1>10. Len(str) = (n - 1) - (i + 1) + 1 /\ \A j \in 1 .. (n - 1) - (i + 1) + 1 : str[j] = p[(i + 1) + j - 1]
  <2>1. i + 1 \in Nat \ {0} /\ n - 1 <= Len(p) /\ i + 1 <= (n - 1) + 1  BY <1>7, <1>9
  <2> QED  BY <1>2, <1>9, <2>1, SubSeqIs
<1>11. n = i + 2
  <2>1. (n - 1) - (i + 1) + 1 = 1  BY <1>6, <1>10
  <2> QED  BY <1>9, <2>1
<1>12. str[1] = p[i + 1]
  <2>1. 1 \in 1 .. (n - 1) - (i + 1) + 1 /\ (i + 1) + 1 - 1 = i + 1  BY <1>11
  <2> QED  BY <1>10, <2>1
<1>13. Named(p, i)
  <2>1. i + 1 \in i + 1 .. n - 1 /\ i + 1 \in 1 .. Len(p) /\ i \in 1 .. Len(p) - 1  BY <1>7, <1>9, <1>11
  <2>2. p[i + 1] \in Chars /\ p[i + 1] \notin NotLetter  BY <1>8, <2>1 DEF FirstStop
  <2>3. p[i + 1] \in Letters  BY <2>2 DEF NotLetter
  <2> QED  BY <1>6, <1>12, <2>1, <2>3 DEF Named, Keys, Starts
<1>14. CASE ~HasFormat(p, n)
  <2>1. i + 2 <= Len(p) => p[i + 2] # "{"  BY <1>11, <1>14 DEF HasFormat
  <2>2. i + 2 <= Len(p) => p[i + 2] \notin Letters  BY <1>8, <1>11 DEF FirstStop, NotLetter
  <2> QED  BY <1>13, <2>1, <2>2 DEF Bare
<1>15. CASE HasFormat(p, n)
  <2>1. i + 2 <= Len(p) /\ p[i + 2] = "{"  BY <1>11, <1>15 DEF HasFormat
  <2>2. m = Find(p, i + 2, Closing)  BY <1>1, <1>11, <1>15 DEF LastOf
  <2>3. FirstStop(p, i + 2, Closing, m)
    <3>1. i + 2 \in Nat  OBVIOUS
    <3> QED  BY <2>1, <2>2, <3>1, FindStops
  <2>4. m \in (i + 2) + 1 .. Len(p) + 1  BY <2>3 DEF FirstStop
  <2>5. m \in Nat /\ m \in i + 3 .. Len(p) /\ m <= Len(p) /\ (i + 2) + 1 = i + 3  BY <1>5, <1>7, <2>4
  <2>6. p[m] = "}" /\ \A j \in i + 3 .. m - 1 : p[j] # "}"  BY <2>3, <2>5 DEF FirstStop, Closing
  <2>7. Full(p, i, m)  BY <1>13, <2>1, <2>5, <2>6 DEF Full
  <2> QED  BY <2>5, <2>7
<1> QED  BY <1>14, <1>15

-----------------------------------------------------------------------------
(* The reference                                                           *)

NoPercent(w) == \A j \in 1 .. Len(w) : w[j] # "%"
NoClosing(w) == \A j \in 1 .. Len(w) : w[j] # "}"

(* Words are sequences.                                                    *)
LEMMA WordsAre ==
    ASSUME NEW n \in Nat, NEW S, NEW w
    PROVE  w \in Words(S, n) <=> w \in Seq(S) /\ Len(w) = n
<1>1. ASSUME w \in Words(S, n) PROVE w \in Seq(S) /\ Len(w) = n  BY <1>1 DEF Words
<1>2. ASSUME w \in Seq(S), Len(w) = n PROVE w \in Words(S, n)  BY <1>2 DEF Words
<1> QED  BY <1>1, <1>2

(* Words without one of the characters.                                    *)
LEMMA WordsWithout ==
    ASSUME NEW n \in Nat, NEW x, NEW w
    PROVE  w \in Words(Chars \ {x}, n) <=> w \in Seq(Chars) /\ Len(w) = n /\ \A j \in 1 .. Len(w) : w[j] # x
<1>1. ASSUME w \in Words(Chars \ {x}, n)
      PROVE  w \in Seq(Chars) /\ Len(w) = n /\ \A j \in 1 .. Len(w) : w[j] # x
  <2>1. w \in Seq(Chars \ {x}) /\ Len(w) = n  BY <1>1, WordsAre
  <2> QED  BY <2>1
<1>2. ASSUME w \in Seq(Chars), Len(w) = n, \A j \in 1 .. Len(w) : w[j] # x
      PROVE  w \in Words(Chars \ {x}, n)
  <2>1. w \in [1 .. n -> Chars]  BY <1>2
  <2> QED  BY <1>2, <2>1 DEF Words
<1> QED  BY <1>1, <1>2

(* A chunk is a text, a key, or a key with a format.                       *)
LEMMA ChunkShape ==
    ASSUME NEW n \in Nat, NEW c \in Chunks(n)
    PROVE  \/ \E w \in Seq(Chars) : c = TextChunk(w) /\ Len(w) = n /\ NoPercent(w)
           \/ n = 2 /\ \E k \in Keys : c = BareChunk(k)
           \/ n >= 4 /\ \E k \in Keys, w \in Seq(Chars) :
                c = FullChunk(k, w) /\ Len(w) = n - 4 /\ NoClosing(w)
<1>1. CASE c \in Texts(n)
  <2>1. PICK w \in Words(Chars \ {"%"}, n) : c = TextChunk(w)  BY <1>1 DEF Texts
  <2>2. w \in Seq(Chars) /\ Len(w) = n /\ NoPercent(w)  BY <2>1, WordsWithout DEF NoPercent
  <2> QED  BY <2>1, <2>2, Zenon
<1>2. CASE n = 2 /\ c \in Bares
  BY <1>2, Zenon DEF Bares
<1>3. CASE n >= 4 /\ c \in Fulls(n - 4)
  <2>1. n - 4 \in Nat  BY <1>3
  <2>2. PICK k \in Keys, w \in Words(Chars \ {"}"}, n - 4) : c = FullChunk(k, w)
    <3>1. PICK x \in Keys \X Words(Chars \ {"}"}, n - 4) : c = FullChunk(x[1], x[2])  BY <1>3 DEF Fulls
    <3>2. x[1] \in Keys /\ x[2] \in Words(Chars \ {"}"}, n - 4)  BY <3>1
    <3> QED  BY <3>1, <3>2
  <2>3. w \in Seq(Chars) /\ Len(w) = n - 4 /\ NoClosing(w)  BY <2>1, <2>2, WordsWithout DEF NoClosing
  <2> QED  BY <1>3, <2>2, <2>3, Zenon
<1> QED  BY <1>1, <1>2, <1>3 DEF Chunks

(* Each of them is a chunk.                                                *)
LEMMA TextIn ==
    ASSUME NEW w \in Seq(Chars), NoPercent(w)
    PROVE  TextChunk(w) \in Chunks(Len(w))
<1>1. PICK n \in Nat : n = Len(w)  OBVIOUS
<1>2. w \in Words(Chars \ {"%"}, n)  BY <1>1, WordsWithout DEF NoPercent
<1>3. TextChunk(w) \in Texts(n)  BY <1>2, Zenon DEF Texts
<1> QED  BY <1>1, <1>3 DEF Chunks

(* A key alone is a chunk.                                                 *)
LEMMA BareIn ==
    ASSUME NEW k \in Keys
    PROVE  BareChunk(k) \in Chunks(2)
<1>1. BareChunk(k) \in Bares  BY Zenon DEF Bares
<1> QED  BY <1>1 DEF Chunks

(* A key with its format is a chunk.                                       *)
LEMMA FullIn ==
    ASSUME NEW k \in Keys, NEW w \in Seq(Chars), NoClosing(w)
    PROVE  FullChunk(k, w) \in Chunks(Len(w) + 4)
<1>1. PICK n \in Nat : n = Len(w)  OBVIOUS
<1>2. w \in Words(Chars \ {"}"}, n)  BY <1>1, WordsWithout DEF NoClosing
<1>3. FullChunk(k, w) \in Fulls(n)
  <2>1. PICK x : x = <<k, w>>  OBVIOUS
  <2>2. x \in Keys \X Words(Chars \ {"}"}, n) /\ x[1] = k /\ x[2] = w  BY <1>2, <2>1
  <2>3. FullChunk(x[1], x[2]) \in Fulls(n)  BY <2>2, Zenon DEF Fulls
  <2> QED  BY <2>2, <2>3, Zenon
<1>4. n + 4 >= 4 /\ (n + 4) - 4 = n  OBVIOUS
<1> QED  BY <1>1, <1>3, <1>4 DEF Chunks

(* The characters of a key alone.                                          *)
LEMMA BareChars ==
    ASSUME NEW k \in Keys
    PROVE  /\ BareChunk(k).chars \in Seq(Chars) /\ Len(BareChunk(k).chars) = 2
           /\ BareChunk(k).chars[1] = "%" /\ BareChunk(k).chars[2] = k
<1>1. k \in Chars /\ "%" \in Chars  BY DEF Keys, Chars
<1>2. PICK c : c = <<"%", k>>  OBVIOUS
<1>3. c \in Seq(Chars) /\ Len(c) = 2 /\ c[1] = "%" /\ c[2] = k  BY <1>1, <1>2
<1>4. BareChunk(k).chars = c  BY <1>2 DEF BareChunk
<1> QED  BY <1>3, <1>4

(* The characters around a format.                                         *)
LEMMA FrameChars ==
    ASSUME NEW x \in Chars, NEW k \in Chars, NEW y \in Chars, NEW z \in Chars,
           NEW a, a = <<x, k, y>>, NEW b, b = <<z>>
    PROVE  /\ a \in Seq(Chars) /\ Len(a) = 3 /\ a[1] = x /\ a[2] = k /\ a[3] = y
           /\ b \in Seq(Chars) /\ Len(b) = 1 /\ b[1] = z
OBVIOUS

Framed(a, w, b, c) ==
    /\ c \in Seq(Chars) /\ Len(c) = Len(w) + 4
    /\ c[1] = a[1] /\ c[2] = a[2] /\ c[3] = a[3] /\ c[Len(w) + 4] = b[1]
    /\ \A j \in 1 .. Len(w) : c[3 + j] = w[j]

(* A format with what is around it, character by character.                *)
LEMMA FramedIs ==
    ASSUME NEW a \in Seq(Chars), NEW w \in Seq(Chars), NEW b \in Seq(Chars), Len(a) = 3, Len(b) = 1,
           NEW u, u = a \o w, NEW c, c = u \o b
    PROVE  Framed(a, w, b, c)
<1>6. u \in Seq(Chars) /\ Len(u) = 3 + Len(w) /\ \A i \in 1 .. 3 + Len(w) : u[i] = IF i <= 3 THEN a[i] ELSE w[i - 3]
  <2>1. /\ u \in Seq(Chars) /\ Len(u) = Len(a) + Len(w)
        /\ \A i \in 1 .. Len(a) + Len(w) : u[i] = IF i <= Len(a) THEN a[i] ELSE w[i - Len(a)]
    BY ConcatProperties
  <2>2. Len(a) = 3  OBVIOUS
  <2> QED  BY <2>1, <2>2
<1>8. c \in Seq(Chars) /\ Len(c) = Len(u) + 1 /\ \A i \in 1 .. Len(u) + 1 : c[i] = IF i <= Len(u) THEN u[i] ELSE b[i - Len(u)]
  <2>1. /\ c \in Seq(Chars) /\ Len(c) = Len(u) + Len(b)
        /\ \A i \in 1 .. Len(u) + Len(b) : c[i] = IF i <= Len(u) THEN u[i] ELSE b[i - Len(u)]
    <3>1. u \in Seq(Chars)  BY <1>6
    <3> QED  BY <3>1, ConcatProperties
  <2>2. Len(b) = 1  OBVIOUS
  <2> QED  BY <2>1, <2>2
<1>9. PICK m \in Nat : m = Len(w)  OBVIOUS
<1>10. Len(u) = 3 + m /\ Len(c) = m + 4  BY <1>6, <1>8, <1>9
<1>11. \A i \in 1 .. 3 : c[i] = a[i]
  <2>1. \A i \in 1 .. 3 : i \in 1 .. Len(u) + 1 /\ i <= Len(u) /\ i \in 1 .. 3 + Len(w) /\ i <= 3  BY <1>9, <1>10
  <2> QED  BY <1>6, <1>8, <2>1
<1>12. c[m + 4] = b[1]
  <2>1. m + 4 \in 1 .. Len(u) + 1 /\ ~(m + 4 <= Len(u)) /\ (m + 4) - Len(u) = 1  BY <1>10
  <2> QED  BY <1>8, <2>1
<1>13. \A j \in 1 .. m : c[3 + j] = w[j]
  <2> SUFFICES ASSUME NEW j \in 1 .. m PROVE c[3 + j] = w[j]  OBVIOUS
  <2>1. 3 + j \in 1 .. Len(u) + 1 /\ 3 + j <= Len(u) /\ 3 + j \in 1 .. 3 + Len(w) /\ ~(3 + j <= 3) /\ (3 + j) - 3 = j
    BY <1>9, <1>10
  <2>2. c[3 + j] = u[3 + j]  BY <1>8, <2>1
  <2>3. u[3 + j] = w[(3 + j) - 3]  BY <1>6, <2>1
  <2> QED  BY <2>1, <2>2, <2>3
<1>14. c[1] = a[1] /\ c[2] = a[2] /\ c[3] = a[3]
  <2>1. 1 \in 1 .. 3 /\ 2 \in 1 .. 3 /\ 3 \in 1 .. 3  OBVIOUS
  <2> QED  BY <1>11, <2>1
<1> QED  BY <1>8, <1>9, <1>10, <1>12, <1>13, <1>14 DEF Framed

FullShape(k, w, c) ==
    /\ c \in Seq(Chars) /\ Len(c) = Len(w) + 4
    /\ c[1] = "%" /\ c[2] = k /\ c[3] = "{" /\ c[Len(w) + 4] = "}"
    /\ \A j \in 1 .. Len(w) : c[3 + j] = w[j]

(* The characters of a key with its format.                                *)
LEMMA FullChars ==
    ASSUME NEW k \in Keys, NEW w \in Seq(Chars), NEW c, c = FullChunk(k, w).chars
    PROVE  FullShape(k, w, c)
<1>1. k \in Chars  BY DEF Keys, Chars
<1>2. PICK x, y, z : x = "%" /\ y = "{" /\ z = "}"  OBVIOUS
<1>3. x \in Chars /\ y \in Chars /\ z \in Chars  BY <1>2, Zenon DEF Chars
<1>4. PICK a, b : a = <<x, k, y>> /\ b = <<z>>  OBVIOUS
<1>5. /\ a \in Seq(Chars) /\ Len(a) = 3 /\ a[1] = x /\ a[2] = k /\ a[3] = y
      /\ b \in Seq(Chars) /\ Len(b) = 1 /\ b[1] = z
  BY <1>1, <1>3, <1>4, FrameChars
<1>6. PICK u : u = a \o w  OBVIOUS
<1>6a. c = u \o b  BY <1>2, <1>4, <1>6, Zenon DEF FullChunk
<1>7. Framed(a, w, b, c)  BY <1>5, <1>6, <1>6a, FramedIs, Zenon
<1> QED  BY <1>2, <1>5, <1>7, Zenon DEF Framed, FullShape

(* Written is the solution of its equation.                                *)
Nothing == [chars |-> << >>, out |-> << >>, last |-> "none"]
Grow(f, n) == IF n = 0 THEN {Nothing} ELSE UNION {Extended(f[n - k], k) : k \in 1 .. n}
Grows(N, f) == f = [n \in 0 .. N |-> Grow(f, n)]

(* The equation looks at shorter patterns only,                            *)
LEMMA GrowSame ==
    ASSUME NEW n \in Nat, NEW f, NEW g, \A j \in 0 .. n - 1 : f[j] = g[j]
    PROVE  Grow(f, n) = Grow(g, n)
<1>1. CASE n = 0  BY <1>1 DEF Grow
<1>2. CASE n # 0
  <2>1. \A k \in 1 .. n : f[n - k] = g[n - k]
    <3> SUFFICES ASSUME NEW k \in 1 .. n PROVE f[n - k] = g[n - k]  OBVIOUS
    <3>1. n - k \in 0 .. n - 1  OBVIOUS
    <3> QED  BY <3>1
  <2>2. {Extended(f[n - k], k) : k \in 1 .. n} = {Extended(g[n - k], k) : k \in 1 .. n}
    BY <2>1, Zenon
  <2> QED  BY <1>2, <2>2, Zenon DEF Grow
<1> QED  BY <1>1, <1>2

(* so it has a solution,                                                   *)
LEMMA GrowsExists ==
    ASSUME NEW N \in Nat
    PROVE  \E f : Grows(N, f)
<1> DEFINE Bad == {m \in Nat : ~ \E f : Grows(m, f)}
<1>1. CASE Bad = {}  BY <1>1
<1>2. CASE Bad # {}
  <2>1. PICK x \in Bad : \A y \in Bad : x <= y
    <3>1. Bad \in SUBSET Nat  OBVIOUS
    <3> QED  BY <1>2, <3>1, MinIsIn
  <2>2. x \in Nat  BY <2>1
  <2>3. CASE x = 0
    <3>1. PICK f : f = [n \in 0 .. 0 |-> {Nothing}]  OBVIOUS
    <3>2. Grows(0, f)  BY <3>1 DEF Grows, Grow
    <3> QED  BY <2>1, <2>3, <3>2
  <2>4. CASE x # 0
    <3>1. x - 1 \in Nat /\ ~(x <= x - 1)  BY <2>2, <2>4
    <3>2. PICK f : Grows(x - 1, f)  BY <2>1, <3>1
    <3>3. PICK g : g = [n \in 0 .. x |-> IF n = x THEN Grow(f, x) ELSE f[n]]  OBVIOUS
    <3>4. ASSUME NEW n \in 0 .. x PROVE g[n] = Grow(g, n)
      <4>1. \A j \in 0 .. n - 1 : f[j] = g[j]
        <5>1. \A j \in 0 .. n - 1 : j \in 0 .. x /\ j # x  BY <2>2
        <5> QED  BY <3>3, <5>1
      <4>2. Grow(f, n) = Grow(g, n)
        <5>1. n \in Nat  BY <2>2
        <5> QED  BY <4>1, <5>1, GrowSame
      <4>3. CASE n = x  BY <3>3, <4>2, <4>3
      <4>4. CASE n # x
        <5>1. n \in 0 .. (x - 1)  BY <2>2, <4>4
        <5>2. f[n] = Grow(f, n)  BY <3>2, <5>1 DEF Grows
        <5> QED  BY <3>3, <4>2, <4>4, <5>2
      <4> QED  BY <4>3, <4>4
    <3>5. Grows(x, g)
      <4>1. g = [n \in 0 .. x |-> g[n]]  BY <3>3
      <4> QED  BY <3>4, <4>1 DEF Grows
    <3> QED  BY <2>1, <3>5
  <2> QED  BY <2>3, <2>4
<1> QED  BY <1>1, <1>2

(* which Written is.                                                       *)
LEMMA WrittenIs ==
    ASSUME NEW n \in 0 .. MaxPattern
    PROVE  Written[n] = Grow(Written, n)
<1>1. PICK f : Grows(MaxPattern, f)  BY GrowsExists, PatternAssumption
<1>2. Grows(MaxPattern, Written)  BY <1>1 DEF Written, Grows, Grow, Nothing
<1> QED  BY <1>2 DEF Grows

(* Induction, for a set of numbers.                                        *)
LEMMA StrongInduction ==
    ASSUME NEW S, \A n \in Nat : (\A m \in 0 .. n - 1 : m \in S) => n \in S
    PROVE  \A n \in Nat : n \in S
<1>1. PICK B : B = {n \in Nat : n \notin S}  OBVIOUS
<1>2. CASE B = {}  BY <1>1, <1>2
<1>3. CASE B # {}
  <2>1. PICK x \in B : \A y \in B : x <= y
    <3>1. B \in SUBSET Nat  BY <1>1
    <3> QED  BY <1>3, <3>1, MinIsIn
  <2>2. x \in Nat /\ x \notin S  BY <1>1, <2>1
  <2>3. \A m \in 0 .. x - 1 : m \in S
    <3>1. \A m \in 0 .. x - 1 : m \in Nat /\ ~(x <= m)  BY <2>2
    <3> QED  BY <1>1, <2>1, <3>1
  <2> QED  BY <2>2, <2>3
<1> QED  BY <1>2, <1>3

(* The same from each number to the next.                                  *)
LEMMA StepInduction ==
    ASSUME NEW S, 0 \in S, \A n \in Nat : n \in S => n + 1 \in S
    PROVE  \A n \in Nat : n \in S
<1>1. ASSUME NEW n \in Nat, \A m \in 0 .. n - 1 : m \in S PROVE n \in S
  <2>1. CASE n = 0  BY <2>1
  <2>2. CASE n # 0
    <3>1. n - 1 \in Nat /\ n - 1 \in 0 .. n - 1 /\ (n - 1) + 1 = n  BY <2>2
    <3> QED  BY <1>1, <3>1
  <2> QED  BY <2>1, <2>2
<1> QED  BY <1>1, StrongInduction

(* A pattern of n characters grows out of a shorter one by a chunk.        *)
LEMMA WrittenSteps ==
    ASSUME NEW n \in 1 .. MaxPattern, NEW y \in Written[n]
    PROVE  \E k \in 1 .. n : \E x \in Written[n - k], c \in Chunks(k) : MayFollow(x, c) /\ y = Join(x, c)
<1>1. n \in 0 .. MaxPattern /\ n # 0  BY PatternAssumption
<1>2. y \in UNION {Extended(Written[n - k], k) : k \in 1 .. n}  BY <1>1, WrittenIs DEF Grow
<1>3. PICK k \in 1 .. n : y \in Extended(Written[n - k], k)  BY <1>2
<1>4. PICK S : S = Written[n - k]  OBVIOUS
<1>5. y \in {Join(x[1], x[2]) : x \in {z \in S \X Chunks(k) : MayFollow(z[1], z[2])}}
  BY <1>3, <1>4, Zenon DEF Extended
<1>6. PICK z \in S \X Chunks(k) : MayFollow(z[1], z[2]) /\ y = Join(z[1], z[2])  BY <1>5
<1>7. z[1] \in S /\ z[2] \in Chunks(k)  BY <1>6
<1> QED  BY <1>4, <1>6, <1>7, Zenon

(* And a chunk that may follow makes a longer pattern.                     *)
LEMMA WrittenGrows ==
    ASSUME NEW m \in Nat, NEW k \in Nat \ {0}, m + k <= MaxPattern,
           NEW x \in Written[m], NEW c \in Chunks(k), MayFollow(x, c)
    PROVE  Join(x, c) \in Written[m + k]
<1>1. PICK n : n = m + k  OBVIOUS
<1>2. n \in 0 .. MaxPattern /\ n # 0 /\ k \in 1 .. n /\ n - k = m  BY <1>1, PatternAssumption
<1>3. PICK z : z = <<x, c>>  OBVIOUS
<1>4. z \in Written[m] \X Chunks(k) /\ z[1] = x /\ z[2] = c  BY <1>3
<1>5. Join(z[1], z[2]) \in Extended(Written[m], k)  BY <1>4, Zenon DEF Extended
<1>6. Join(x, c) \in Extended(Written[n - k], k)  BY <1>2, <1>4, <1>5, Zenon
<1>7. Join(x, c) \in UNION {Extended(Written[n - l], l) : l \in 1 .. n}  BY <1>2, <1>6, Zenon
<1>8. Written[n] = UNION {Extended(Written[n - l], l) : l \in 1 .. n}  BY <1>2, WrittenIs DEF Grow
<1> QED  BY <1>1, <1>7, <1>8, Zenon

(* The empty pattern.                                                      *)
LEMMA WrittenZero == Written[0] = {Nothing}
<1>1. 0 \in 0 .. MaxPattern  BY PatternAssumption
<1> QED  BY <1>1, WrittenIs DEF Grow

Outs == {c.out : c \in UNION {Chunks(k) : k \in Nat}}

(* A chunk of n has n characters.                                          *)
LEMMA ChunkTyped ==
    ASSUME NEW n \in Nat, NEW c \in Chunks(n)
    PROVE  /\ c.chars \in Seq(Chars) /\ Len(c.chars) = n /\ c.out \in Outs
           /\ c.kind = "bare" => n = 2
<1>1. c.out \in Outs  BY Zenon DEF Outs
<1>2. ASSUME NEW w \in Seq(Chars), c = TextChunk(w), Len(w) = n
      PROVE  c.chars \in Seq(Chars) /\ Len(c.chars) = n /\ c.kind # "bare"
  <2>1. c.chars = w /\ c.kind = "text"  BY <1>2 DEF TextChunk
  <2> QED  BY <1>2, <2>1
<1>3. ASSUME NEW k \in Keys, c = BareChunk(k), n = 2
      PROVE  c.chars \in Seq(Chars) /\ Len(c.chars) = n
  BY <1>3, BareChars
<1>4. ASSUME NEW k \in Keys, NEW w \in Seq(Chars), c = FullChunk(k, w), Len(w) = n - 4
      PROVE  c.chars \in Seq(Chars) /\ Len(c.chars) = n /\ c.kind # "bare"
  <2>1. c.chars \in Seq(Chars) /\ Len(c.chars) = Len(w) + 4
    <3>1. PICK q : q = FullChunk(k, w).chars  OBVIOUS
    <3>2. FullShape(k, w, q)  BY <3>1, FullChars
    <3> QED  BY <1>4, <3>1, <3>2, Zenon DEF FullShape
  <2>2. c.kind = "full"  BY <1>4 DEF FullChunk
  <2> QED  BY <1>4, <2>1, <2>2
<1> QED  BY <1>1, <1>2, <1>3, <1>4, ChunkShape

WellWritten(y, n) == y.chars \in Seq(Chars) /\ Len(y.chars) = n /\ y.out \in Seq(Outs)

Joined(x, c, y, m, k) ==
    /\ WellWritten(y, m + k) /\ y.out = Append(x.out, c.out) /\ y.last = c.kind
    /\ \A j \in 1 .. m : y.chars[j] = x.chars[j]
    /\ \A j \in 1 .. k : y.chars[m + j] = c.chars[j]

(* What Join makes of a pattern and a chunk.                               *)
LEMMA JoinTyped ==
    ASSUME NEW m \in Nat, NEW x, WellWritten(x, m), NEW k \in Nat, NEW c \in Chunks(k), NEW y, y = Join(x, c)
    PROVE  Joined(x, c, y, m, k)
<1>1. c.chars \in Seq(Chars) /\ Len(c.chars) = k /\ c.out \in Outs  BY ChunkTyped
<1>2. PICK a, b : a = x.chars /\ b = c.chars  OBVIOUS
<1>3. a \in Seq(Chars) /\ b \in Seq(Chars) /\ Len(a) = m /\ Len(b) = k  BY <1>1, <1>2 DEF WellWritten
<1>4. y.chars = a \o b /\ y.out = Append(x.out, c.out) /\ y.last = c.kind  BY <1>2 DEF Join
<1>5. PICK u : u = a \o b  OBVIOUS
<1>6. u \in Seq(Chars) /\ Len(u) = Len(a) + Len(b) /\ \A i \in 1 .. Len(a) + Len(b) : u[i] = IF i <= Len(a) THEN a[i] ELSE b[i - Len(a)]
  BY <1>3, <1>5, ConcatProperties
<1>7. \A j \in 1 .. m : u[j] = a[j]
  <2>1. \A j \in 1 .. m : j \in 1 .. Len(a) + Len(b) /\ j <= Len(a)  BY <1>3
  <2> QED  BY <1>6, <2>1
<1>8. \A j \in 1 .. k : u[m + j] = b[j]
  <2> SUFFICES ASSUME NEW j \in 1 .. k PROVE u[m + j] = b[j]  OBVIOUS
  <2>1. m + j \in 1 .. Len(a) + Len(b) /\ ~(m + j <= Len(a)) /\ (m + j) - Len(a) = j  BY <1>3
  <2> QED  BY <1>6, <2>1
<1>9. x.out \in Seq(Outs) /\ y.out \in Seq(Outs)
  <2>1. x.out \in Seq(Outs)  BY DEF WellWritten
  <2> QED  BY <1>1, <1>4, <2>1
<1>10. Len(u) = m + k  BY <1>3, <1>6
<1> QED  BY <1>2, <1>4, <1>5, <1>6, <1>7, <1>8, <1>9, <1>10 DEF WellWritten, Joined

(* A pattern of n has n characters.                                        *)
LEMMA WrittenTyped ==
    ASSUME NEW n \in 0 .. MaxPattern, NEW y \in Written[n]
    PROVE  WellWritten(y, n)
<1> DEFINE S == {m \in Nat : m <= MaxPattern => \A z \in Written[m] : WellWritten(z, m)}
<1>1. ASSUME NEW m \in Nat, \A l \in 0 .. m - 1 : l \in S PROVE m \in S
  <2> SUFFICES ASSUME m <= MaxPattern, NEW z \in Written[m] PROVE WellWritten(z, m)  OBVIOUS
  <2>1. CASE m = 0
    <3>1. z = Nothing  BY <2>1, WrittenZero
    <3> QED  BY <2>1, <3>1 DEF Nothing, WellWritten
  <2>2. CASE m # 0
    <3>1. m \in 1 .. MaxPattern  BY <2>2, PatternAssumption
    <3>2. PICK k \in 1 .. m : \E x \in Written[m - k], c \in Chunks(k) : MayFollow(x, c) /\ z = Join(x, c)
      BY <3>1, WrittenSteps
    <3>3. PICK x \in Written[m - k], c \in Chunks(k) : MayFollow(x, c) /\ z = Join(x, c)  BY <3>2
    <3>4. m - k \in 0 .. m - 1 /\ m - k \in Nat /\ m - k <= MaxPattern /\ k \in Nat /\ (m - k) + k = m  BY PatternAssumption
    <3>5. WellWritten(x, m - k)  BY <1>1, <3>3, <3>4
    <3>6. WellWritten(z, (m - k) + k)  BY <3>3, <3>4, <3>5, JoinTyped DEF Joined
    <3> QED  BY <3>4, <3>6
  <2> QED  BY <2>1, <2>2
<1> HIDE DEF S
<1>2. \A m \in Nat : m \in S  BY <1>1, StrongInduction
<1> QED  BY <1>2, PatternAssumption DEF S

-----------------------------------------------------------------------------
(* What a line holds                                                       *)

Items == {Text(w) : w \in Seq(Chars)} \cup {Item(x[1], x[2]) : x \in Keys \X Seq(Chars)}
Line(items) == format(items, SampleEvent)

(* A text writes itself.                                                   *)
LEMMA TextWrites ==
    ASSUME NEW w \in Seq(Chars)
    PROVE  Text(w) \in Items /\ Writes(Text(w), SampleEvent) = w
<1>1. Text(w) \in Items  BY Zenon DEF Items
<1>2. "text" \in DOMAIN Text(w) /\ Text(w).text = w  BY DEF Text
<1> QED  BY <1>1, <1>2 DEF Writes

(* An item writes its field.                                               *)
LEMMA ItemWrites ==
    ASSUME NEW k \in Keys, NEW fmt \in Seq(Chars)
    PROVE  Item(k, fmt) \in Items /\ Writes(Item(k, fmt), SampleEvent) = Field(k, fmt)
<1>1. Item(k, fmt) \in Items
  <2>1. PICK x : x = <<k, fmt>>  OBVIOUS
  <2>2. x \in Keys \X Seq(Chars) /\ x[1] = k /\ x[2] = fmt  BY <2>1
  <2>3. Item(x[1], x[2]) \in Items  BY <2>2, Zenon DEF Items
  <2> QED  BY <2>2, <2>3, Zenon
<1>2. PICK g : g = IF k # "d" THEN << >> ELSE IF fmt = << >> THEN DefaultTime ELSE fmt  OBVIOUS
<1>3. Item(k, fmt) = [field |-> Key[k], fmt |-> g]  BY <1>2, KeysAre, Zenon DEF Item
<1>4. Field(k, fmt) = <<Key[k], g>>  BY <1>2, Zenon DEF Field
<1>5. SampleEvent[Key[k]] = Key[k]
  <2>1. k \in DOMAIN Key  BY DEF Keys
  <2>2. Key[k] \in {Key[l] : l \in DOMAIN Key}  BY <2>1, Zenon
  <2> QED  BY <2>2, Zenon DEF SampleEvent
<1>6. PICK f : f = Key[k]  OBVIOUS
<1>7. PICK it : it = [field |-> f, fmt |-> g]  OBVIOUS
<1>8. "text" \notin DOMAIN it /\ it.field = f /\ it.fmt = g  BY <1>7
<1>9. Writes(it, SampleEvent) = <<SampleEvent[f], g>>  BY <1>8, Zenon DEF Writes
<1> QED  BY <1>1, <1>3, <1>4, <1>5, <1>6, <1>7, <1>9, Zenon

(* One more item adds what it writes.                                      *)
LEMMA LineAppend ==
    ASSUME NEW items \in Seq(Items), NEW it \in Items, NEW S, NEW out \in Seq(S), Line(items) = out,
           NEW o \in S, Writes(it, SampleEvent) = o
    PROVE  items \o <<it>> \in Seq(Items) /\ Line(items \o <<it>>) = Append(out, o)
<1>1. PICK n \in Nat : n = Len(items)  OBVIOUS
<1>2. DOMAIN items = 1 .. n  BY <1>1
<1>3. out = [i \in 1 .. n |-> Writes(items[i], SampleEvent)]  BY <1>2 DEF Line, format
<1>4. Len(out) = n
  <2>1. DOMAIN out = 1 .. n  BY <1>3
  <2> QED  BY <1>1, <2>1
<1>5. PICK v : v = items \o <<it>>  OBVIOUS
<1>6. v \in Seq(Items) /\ DOMAIN v = 1 .. n + 1 /\ v[n + 1] = it /\ \A i \in 1 .. n : v[i] = items[i]
  <2>1. <<it>> \in Seq(Items) /\ Len(<<it>>) = 1 /\ <<it>>[1] = it  OBVIOUS
  <2>2. PICK q : q = <<it>>  OBVIOUS
  <2>3. v \in Seq(Items) /\ Len(v) = Len(items) + Len(q) /\ \A i \in 1 .. Len(items) + Len(q) : v[i] = IF i <= Len(items) THEN items[i] ELSE q[i - Len(items)]
    BY <1>5, <2>1, <2>2, ConcatProperties
  <2>4. Len(q) = 1 /\ q[1] = it  BY <2>1, <2>2
  <2>5. n + 1 \in 1 .. n + 1 /\ ~(n + 1 <= n) /\ (n + 1) - n = 1  OBVIOUS
  <2>6. \A i \in 1 .. n : i \in 1 .. n + 1 /\ i <= n  OBVIOUS
  <2> QED  BY <1>1, <2>3, <2>4, <2>5, <2>6
<1>7. PICK u : u = Append(out, o)  OBVIOUS
<1>8. u \in Seq(S) /\ DOMAIN u = 1 .. n + 1 /\ u[n + 1] = o /\ \A i \in 1 .. n : u[i] = out[i]  BY <1>4, <1>7
<1>9. u = [i \in 1 .. n + 1 |-> u[i]]  BY <1>8
<1>10. \A i \in 1 .. n + 1 : u[i] = Writes(v[i], SampleEvent)
  <2> SUFFICES ASSUME NEW i \in 1 .. n + 1 PROVE u[i] = Writes(v[i], SampleEvent)  OBVIOUS
  <2>1. CASE i = n + 1  BY <1>6, <1>8, <2>1
  <2>2. CASE i # n + 1
    <3>1. i \in 1 .. n  BY <2>2
    <3> QED  BY <1>3, <1>6, <1>8, <3>1
  <2> QED  BY <2>1, <2>2
<1>11. Line(v) = [i \in 1 .. n + 1 |-> Writes(v[i], SampleEvent)]  BY <1>6 DEF Line, format
<1> QED  BY <1>5, <1>6, <1>7, <1>9, <1>10, <1>11

-----------------------------------------------------------------------------
(* The loop reads what is written                                          *)

(* j characters of a text, from m + 1 on, take j rounds.                   *)
Collected(p, s, q, m, j) ==
    /\ q.i = m + j + 1 /\ q.items = s.items /\ q.error = s.error
    /\ q.nstr \in Seq(Chars) /\ Len(q.nstr) = j /\ \A r \in 1 .. j : q.nstr[r] = p[m + r]

(* Each round collects one.                                                *)
LEMMA RoundsCollect ==
    ASSUME NEW p \in Seq(Chars), NEW k \in Nat, NEW m \in Nat, NEW n \in Nat, k <= m, m + n <= Len(p),
           NEW s, s = Rounds(p)[k], s.i = m + 1, s.nstr = << >>,
           \A r \in 1 .. n : p[m + r] # "%"
    PROVE  Collected(p, s, Rounds(p)[k + n], m, n)
<1> DEFINE S == {j \in Nat : j <= n => Collected(p, s, Rounds(p)[k + j], m, j)}
<1>1. 0 \in S
  <2>1. k + 0 = k /\ m + 0 + 1 = m + 1  OBVIOUS
  <2>2. s.nstr \in Seq(Chars) /\ Len(s.nstr) = 0  OBVIOUS
  <2>3. \A r \in 1 .. 0 : FALSE  OBVIOUS
  <2>4. Collected(p, s, s, m, 0)  BY <2>1, <2>2, <2>3, Zenon DEF Collected
  <2>5. Rounds(p)[k + 0] = s  BY <2>1
  <2>6. Collected(p, s, Rounds(p)[k + 0], m, 0)  BY <2>4, <2>5, Zenon
  <2> QED  BY <2>6
<1>2. ASSUME NEW j \in Nat, j \in S PROVE j + 1 \in S
  <2> SUFFICES ASSUME j + 1 <= n PROVE Collected(p, s, Rounds(p)[k + (j + 1)], m, j + 1)  OBVIOUS
  <2>1. PICK q : q = Rounds(p)[k + j]  OBVIOUS
  <2>2. Collected(p, s, q, m, j)  BY <1>2, <2>1
  <2>3. k + (j + 1) \in 1 .. Len(p) /\ (k + (j + 1)) - 1 = k + j /\ Len(p) \in Nat  OBVIOUS
  <2>4. PICK t : t = Rounds(p)[k + (j + 1)]  OBVIOUS
  <2>5. t = Round(p, q)  BY <2>1, <2>3, <2>4, RoundsAre
  <2>6. q.i = m + j + 1 /\ m + j + 1 \in 1 .. Len(p) /\ j + 1 \in 1 .. n /\ m + (j + 1) = m + j + 1
    BY <2>2, <2>3 DEF Collected
  <2>7. p[q.i] # "%" /\ p[m + (j + 1)] \in Chars  BY <2>6
  <2>8. t = [i |-> q.i + 1, nstr |-> Append(q.nstr, p[q.i]), items |-> q.items, error |-> q.error]
    BY <2>5, <2>6, <2>7, RoundText
  <2>9. t.i = m + (j + 1) + 1 /\ t.items = s.items /\ t.error = s.error
    <3>1. t.i = q.i + 1 /\ t.items = q.items /\ t.error = q.error  BY <2>8
    <3> QED  BY <2>2, <2>6, <3>1 DEF Collected
  <2>10. PICK a, x : a = q.nstr /\ x = p[m + (j + 1)]  OBVIOUS
  <2>11. a \in Seq(Chars) /\ Len(a) = j /\ \A r \in 1 .. j : a[r] = p[m + r]  BY <2>2, <2>10 DEF Collected
  <2>12. t.nstr = Append(a, x)  BY <2>6, <2>8, <2>10
  <2>13. PICK b : b = Append(a, x)  OBVIOUS
  <2>14. b \in Seq(Chars) /\ Len(b) = j + 1 /\ b[j + 1] = x /\ \A r \in 1 .. j : b[r] = a[r]
    BY <2>7, <2>10, <2>11, <2>13
  <2>15. \A r \in 1 .. j + 1 : b[r] = p[m + r]
    <3> SUFFICES ASSUME NEW r \in 1 .. j + 1 PROVE b[r] = p[m + r]  OBVIOUS
    <3>1. CASE r = j + 1  BY <2>10, <2>14, <3>1
    <3>2. CASE r # j + 1
      <4>1. r \in 1 .. j  BY <3>2
      <4> QED  BY <2>11, <2>14, <4>1
    <3> QED  BY <3>1, <3>2
  <2> QED  BY <2>4, <2>9, <2>12, <2>13, <2>14, <2>15 DEF Collected
<1> HIDE DEF S
<1>3. \A j \in Nat : j \in S  BY <1>1, <1>2, StepInduction
<1> QED  BY <1>3 DEF S

(* Behind the end nothing changes.                                         *)
LEMMA RoundsStay ==
    ASSUME NEW p \in Seq(Chars), NEW k \in 0 .. Len(p), Rounds(p)[k].i = Len(p) + 1
    PROVE  Rounds(p)[Len(p)] = Rounds(p)[k]
<1>1. PICK n \in Nat : n = Len(p)  OBVIOUS
<1> DEFINE S == {j \in Nat : k + j <= n => Rounds(p)[k + j] = Rounds(p)[k]}
<1>2. 0 \in S
  <2>1. k + 0 = k  BY <1>1
  <2> QED  BY <2>1
<1>3. ASSUME NEW j \in Nat, j \in S PROVE j + 1 \in S
  <2> SUFFICES ASSUME k + (j + 1) <= n PROVE Rounds(p)[k + (j + 1)] = Rounds(p)[k]  OBVIOUS
  <2>1. k + (j + 1) \in 1 .. Len(p) /\ (k + (j + 1)) - 1 = k + j /\ k + j <= n  BY <1>1
  <2>2. PICK s : s = Rounds(p)[k]  OBVIOUS
  <2>3. Rounds(p)[k + j] = s /\ s.i = Len(p) + 1  BY <1>3, <2>1, <2>2
  <2>4. Rounds(p)[k + (j + 1)] = Round(p, s)  BY <2>1, <2>3, RoundsAre
  <2> QED  BY <2>2, <2>3, <2>4, RoundEnd
<1> HIDE DEF S
<1>4. \A j \in Nat : j \in S  BY <1>2, <1>3, StepInduction
<1>5. n - k \in Nat /\ k + (n - k) = n /\ k + (n - k) <= n  BY <1>1
<1> QED  BY <1>1, <1>4, <1>5 DEF S

(* p goes on after y, in a way that does not change how y is read.         *)
Continues(p, y, n) ==
    /\ n <= Len(p) /\ \A j \in 1 .. n : p[j] = y.chars[j]
    /\ y.last = "bare" /\ n < Len(p) => p[n + 1] \notin Letters \cup {"{"}

(* The loop has read y.                                                    *)
HasRead(s, y, n) ==
    /\ s.i = n + 1 /\ ~s.error /\ s.items \in Seq(Items) /\ s.nstr \in Seq(Chars)
    /\ y.last # "text" => s.nstr = << >>
    /\ Line(s.items \o Flush(s.nstr)) = y.out

(* Flush() makes one item, or none of an empty text.                       *)
LEMMA FlushTyped ==
    ASSUME NEW items \in Seq(Items), NEW w \in Seq(Chars)
    PROVE  /\ Flush(w) \in Seq(Items) /\ items \o Flush(w) \in Seq(Items)
           /\ items \o Flush(<< >>) = items
<1>1. Text(w) \in Items  BY TextWrites
<1>2. Flush(w) \in Seq(Items)  BY <1>1 DEF Flush
<1>3. Flush(<< >>) = << >>  BY DEF Flush
<1> QED  BY <1>2, <1>3, ConcatProperties, ConcatEmptySeq

(* What a chunk adds.                                                      *)
LEMMA ReadsText ==
    ASSUME NEW p \in Seq(Chars), NEW k \in Nat, NEW m \in Nat, NEW n \in Nat \ {0}, k <= m,
           NEW x, WellWritten(x, m), HasRead(Rounds(p)[k], x, m), x.last # "text",
           NEW w \in Seq(Chars), Len(w) = n, NoPercent(w), TextChunk(w) \in Chunks(n),
           NEW y, y = Join(x, TextChunk(w)), Continues(p, y, m + n)
    PROVE  HasRead(Rounds(p)[k + n], y, m + n)
<1>1. PICK s, q, c : s = Rounds(p)[k] /\ q = Rounds(p)[k + n] /\ c = TextChunk(w)  OBVIOUS
<1>2. c.kind = "text" /\ c.chars = w /\ c.out = w  BY <1>1 DEF TextChunk
<1>3. /\ WellWritten(y, m + n) /\ y.out = Append(x.out, c.out) /\ y.last = c.kind
      /\ \A j \in 1 .. n : y.chars[m + j] = c.chars[j]
  <2>1. c \in Chunks(n) /\ y = Join(x, c)  BY <1>1
  <2>2. n \in Nat  OBVIOUS
  <2>3. Joined(x, c, y, m, n)  BY <2>1, <2>2, JoinTyped
  <2> QED  BY <2>3, Zenon DEF Joined
<1>4. \A j \in 1 .. n : p[m + j] = w[j] /\ p[m + j] # "%"
  <2> SUFFICES ASSUME NEW j \in 1 .. n PROVE p[m + j] = w[j] /\ p[m + j] # "%"  OBVIOUS
  <2>1. m + j \in 1 .. m + n  OBVIOUS
  <2>2. p[m + j] = y.chars[m + j]  BY <2>1 DEF Continues
  <2>3. p[m + j] = w[j]  BY <1>2, <1>3, <2>2
  <2> QED  BY <2>3 DEF NoPercent
<1>5. m + n <= Len(p)  BY DEF Continues
<1>6. HasRead(s, x, m)  BY <1>1
<1>7. s.i = m + 1 /\ s.nstr = << >> /\ s.items \in Seq(Items) /\ ~s.error  BY <1>6 DEF HasRead
<1>8. Collected(p, s, q, m, n)  BY <1>1, <1>4, <1>5, <1>7, RoundsCollect
<1>9. q.nstr = w
  <2>1. PICK a : a = q.nstr  OBVIOUS
  <2>2. a \in Seq(Chars) /\ Len(a) = n /\ \A j \in 1 .. n : a[j] = p[m + j]  BY <1>8, <2>1 DEF Collected
  <2>3. \A j \in 1 .. Len(a) : a[j] = w[j]  BY <1>4, <2>2
  <2>4. a = w  BY <2>2, <2>3, SeqEqual
  <2> QED  BY <2>1, <2>4
<1>10. Line(s.items) = x.out
  <2>1. Line(s.items \o Flush(<< >>)) = x.out  BY <1>6, <1>7 DEF HasRead
  <2> QED  BY <1>7, <2>1, FlushTyped
<1>11. Flush(w) = <<Text(w)>>
  <2>1. w # << >>  OBVIOUS
  <2> QED  BY <2>1 DEF Flush
<1>12. Line(s.items \o <<Text(w)>>) = Append(x.out, w)
  <2>1. Text(w) \in Items /\ Writes(Text(w), SampleEvent) = w  BY TextWrites
  <2>2. w \in Outs /\ x.out \in Seq(Outs)  BY <1>1, <1>2, ChunkTyped DEF WellWritten
  <2> QED  BY <1>7, <1>10, <2>1, <2>2, LineAppend
<1>13. q.i = m + n + 1 /\ q.items = s.items /\ q.error = s.error  BY <1>8 DEF Collected
<1>14. HasRead(q, y, m + n)
  <2>1. Line(q.items \o Flush(q.nstr)) = y.out  BY <1>2, <1>3, <1>9, <1>11, <1>12, <1>13
  <2> QED  BY <1>2, <1>3, <1>7, <1>9, <1>13, <2>1 DEF HasRead
<1> QED  BY <1>1, <1>14

(* A round that ends a directive.                                          *)
LEMMA ReadsItem ==
    ASSUME NEW m \in Nat, NEW n \in Nat, NEW x, WellWritten(x, m), NEW s, HasRead(s, x, m),
           NEW key \in Keys, NEW fmt \in Seq(Chars),
           NEW q, q = ItemRound(s, m + n + 1, key, fmt),
           NEW y, y.out = Append(x.out, Field(key, fmt)), Field(key, fmt) \in Outs
    PROVE  HasRead(q, y, m + n)
<1>1. PICK items : items = s.items \o Flush(s.nstr)  OBVIOUS
<1>2. s.items \in Seq(Items) /\ s.nstr \in Seq(Chars) /\ ~s.error /\ Line(items) = x.out  BY <1>1 DEF HasRead
<1>3. items \in Seq(Items)  BY <1>1, <1>2, FlushTyped
<1>4. PICK it : it = Item(key, fmt)  OBVIOUS
<1>5. it \in Items /\ Writes(it, SampleEvent) = Field(key, fmt)  BY <1>4, ItemWrites
<1>6. x.out \in Seq(Outs)  BY DEF WellWritten
<1>7. items \o <<it>> \in Seq(Items) /\ Line(items \o <<it>>) = y.out  BY <1>2, <1>3, <1>5, <1>6, LineAppend
<1>8. q.i = m + n + 1 /\ q.nstr = << >> /\ q.items = items \o <<it>> /\ ~q.error  BY <1>1, <1>2, <1>4 DEF ItemRound
<1>9. << >> \in Seq(Chars)  OBVIOUS
<1>10. q.items \o Flush(q.nstr) = q.items  BY <1>7, <1>8, <1>9, FlushTyped
<1> QED  BY <1>7, <1>8, <1>9, <1>10 DEF HasRead

(* A key alone is read in one round.                                       *)
LEMMA ReadsBare ==
    ASSUME NEW p \in Seq(Chars), NEW k \in Nat, NEW m \in Nat, k <= m,
           NEW x, WellWritten(x, m), HasRead(Rounds(p)[k], x, m),
           NEW key \in Keys, NEW y, y = Join(x, BareChunk(key)), Continues(p, y, m + 2)
    PROVE  HasRead(Rounds(p)[k + 1], y, m + 2)
<1>1. PICK s, q, c : s = Rounds(p)[k] /\ q = Rounds(p)[k + 1] /\ c = BareChunk(key)  OBVIOUS
<1>2. c.kind = "bare" /\ c.out = Field(key, << >>)  BY <1>1 DEF BareChunk
<1>3. Len(c.chars) = 2 /\ c.chars[1] = "%" /\ c.chars[2] = key  BY <1>1, BareChars
<1>4. c \in Chunks(2)  BY <1>1, BareIn
<1>5. /\ WellWritten(y, m + 2) /\ y.out = Append(x.out, c.out) /\ y.last = c.kind
      /\ \A j \in 1 .. 2 : y.chars[m + j] = c.chars[j]
  <2>1. y = Join(x, c) /\ 2 \in Nat  BY <1>1
  <2>2. Joined(x, c, y, m, 2)  BY <1>4, <2>1, JoinTyped
  <2> QED  BY <2>2, Zenon DEF Joined
<1>6. m + 2 <= Len(p) /\ \A j \in 1 .. m + 2 : p[j] = y.chars[j]  BY DEF Continues
<1>7. p[m + 1] = "%" /\ p[m + 2] = key
  <2>1. m + 1 \in 1 .. m + 2 /\ m + 2 \in 1 .. m + 2 /\ 1 \in 1 .. 2 /\ 2 \in 1 .. 2  OBVIOUS
  <2>2. p[m + 1] = y.chars[m + 1] /\ p[m + 2] = y.chars[m + 2]  BY <1>6, <2>1
  <2>3. y.chars[m + 1] = c.chars[1] /\ y.chars[m + 2] = c.chars[2]  BY <1>5, <2>1
  <2> QED  BY <1>3, <2>2, <2>3
<1>8. PICK i \in Nat : i = m + 1  OBVIOUS
<1>9. Bare(p, i)
  <2>1. i \in 1 .. Len(p) - 1 /\ i + 1 = m + 2 /\ i + 2 = (m + 2) + 1 /\ Len(p) \in Nat  BY <1>6, <1>8
  <2>2. Named(p, i)  BY <1>7, <1>8, <2>1 DEF Named
  <2>3. m + 2 < Len(p) => p[(m + 2) + 1] \notin Letters \cup {"{"}  BY <1>2, <1>5 DEF Continues
  <2>4. i + 2 <= Len(p) => m + 2 < Len(p)  BY <2>1
  <2> QED  BY <2>1, <2>2, <2>3, <2>4 DEF Bare
<1>10. HasRead(s, x, m)  BY <1>1
<1>11. s.i = i  BY <1>8, <1>10 DEF HasRead
<1>12. Round(p, s) = ItemRound(s, i + 2, p[i + 1], << >>)
  BY <1>9, <1>11, RoundBare
<1>13. q = Round(p, s)
  <2>1. k + 1 \in 1 .. Len(p) /\ (k + 1) - 1 = k  BY <1>6
  <2> QED  BY <1>1, <2>1, RoundsAre
<1>14. i + 2 = m + 2 + 1 /\ p[i + 1] = key
  <2>1. i + 1 = m + 2  BY <1>8
  <2> QED  BY <1>7, <1>8, <2>1
<1>15. << >> \in Seq(Chars)  OBVIOUS
<1>16. Field(key, << >>) \in Outs  BY <1>2, <1>4, ChunkTyped
<1>17. q = ItemRound(s, m + 2 + 1, key, << >>)
  BY <1>12, <1>13, <1>14, Zenon
<1>18. y.out = Append(x.out, Field(key, << >>))  BY <1>2, <1>5
<1>19. HasRead(q, y, m + 2)
  <2>1. 2 \in Nat  OBVIOUS
  <2> QED  BY <1>10, <1>15, <1>16, <1>17, <1>18, <2>1, ReadsItem
<1> QED  BY <1>1, <1>19

(* A key with its format is read in one round.                             *)
LEMMA ReadsFull ==
    ASSUME NEW p \in Seq(Chars), NEW k \in Nat, NEW m \in Nat, NEW n \in Nat, k <= m,
           NEW x, WellWritten(x, m), HasRead(Rounds(p)[k], x, m),
           NEW key \in Keys, NEW w \in Seq(Chars), Len(w) + 4 = n, NoClosing(w),
           NEW y, y = Join(x, FullChunk(key, w)), Continues(p, y, m + n)
    PROVE  HasRead(Rounds(p)[k + 1], y, m + n)
<1>1. PICK s, q, c : s = Rounds(p)[k] /\ q = Rounds(p)[k + 1] /\ c = FullChunk(key, w)  OBVIOUS
<1>2. c.out = Field(key, w)  BY <1>1 DEF FullChunk
<1>3. FullShape(key, w, c.chars)  BY <1>1, FullChars
<1>4. c \in Chunks(n)  BY <1>1, FullIn
<1>5. /\ WellWritten(y, m + n) /\ y.out = Append(x.out, c.out) /\ y.last = c.kind
      /\ \A j \in 1 .. n : y.chars[m + j] = c.chars[j]
  <2>1. y = Join(x, c)  BY <1>1
  <2>2. Joined(x, c, y, m, n)  BY <1>4, <2>1, JoinTyped
  <2> QED  BY <2>2, Zenon DEF Joined
<1>6. m + n <= Len(p) /\ \A j \in 1 .. m + n : p[j] = y.chars[j]  BY DEF Continues
<1>7. PICK l \in Nat : l = Len(w)  OBVIOUS
<1>8. n = l + 4  BY <1>7
<1>9. \A j \in 1 .. n : p[m + j] = c.chars[j]
  <2> SUFFICES ASSUME NEW j \in 1 .. n PROVE p[m + j] = c.chars[j]  OBVIOUS
  <2>1. m + j \in 1 .. m + n  OBVIOUS
  <2> QED  BY <1>5, <1>6, <2>1
<1>10. p[m + 1] = "%" /\ p[m + 2] = key /\ p[m + 3] = "{" /\ p[m + n] = "}" /\ \A j \in 1 .. l : p[m + (3 + j)] = w[j]
  <2>1. 1 \in 1 .. n /\ 2 \in 1 .. n /\ 3 \in 1 .. n /\ n \in 1 .. n /\ \A j \in 1 .. l : 3 + j \in 1 .. n  BY <1>8
  <2>2. PICK u : u = c.chars  OBVIOUS
  <2>3. p[m + 1] = u[1] /\ p[m + 2] = u[2] /\ p[m + 3] = u[3] /\ p[m + n] = u[n] /\ \A j \in 1 .. l : p[m + (3 + j)] = u[3 + j]
    BY <1>9, <2>1, <2>2
  <2>4. u[1] = "%" /\ u[2] = key /\ u[3] = "{" /\ u[n] = "}" /\ \A j \in 1 .. l : u[3 + j] = w[j]
    BY <1>3, <1>7, <1>8, <2>2, Zenon DEF FullShape
  <2> QED  BY <2>3, <2>4, Zenon
<1>11. PICK i \in Nat, e \in Nat : i = m + 1 /\ e = m + n  OBVIOUS
<1>12. i + 1 = m + 2 /\ i + 2 = m + 3 /\ i \in 1 .. Len(p) - 1 /\ e \in i + 3 .. Len(p)  BY <1>6, <1>8, <1>11, SMTT(60)
<1>13. Named(p, i)  BY <1>10, <1>11, <1>12, Zenon DEF Named
<1>14. \A j \in i + 3 .. e - 1 : p[j] = w[j - (m + 3)] /\ j - (m + 3) \in 1 .. Len(w)
  <2> SUFFICES ASSUME NEW j \in i + 3 .. e - 1 PROVE p[j] = w[j - (m + 3)] /\ j - (m + 3) \in 1 .. Len(w)  OBVIOUS
  <2>1. j - (m + 3) \in 1 .. l /\ m + (3 + (j - (m + 3))) = j  BY <1>8, <1>11
  <2>2. \A t \in 1 .. l : p[m + (3 + t)] = w[t]  BY <1>10, Zenon
  <2> QED  BY <1>7, <2>1, <2>2
<1>15. Full(p, i, e)
  <2>1. \A j \in i + 3 .. e - 1 : p[j] # "}"  BY <1>14, Zenon DEF NoClosing
  <2> QED  BY <1>10, <1>11, <1>12, <1>13, <2>1, Zenon DEF Full
<1>16. SubSeq(p, i + 3, e - 1) = w
  <2>1. PICK u : u = SubSeq(p, i + 3, e - 1)  OBVIOUS
  <2>2. i + 3 \in Nat \ {0} /\ e - 1 \in Nat /\ e - 1 <= Len(p) /\ i + 3 <= (e - 1) + 1 /\ (e - 1) - (i + 3) + 1 = l
    BY <1>8, <1>11, <1>12
  <2>3. u \in Seq(Chars) /\ Len(u) = (e - 1) - (i + 3) + 1 /\ \A j \in 1 .. (e - 1) - (i + 3) + 1 : u[j] = p[(i + 3) + j - 1]
    BY <2>1, <2>2, SubSeqIs
  <2>4. ASSUME NEW j \in 1 .. l PROVE u[j] = w[j]
    <3>1. (i + 3) + j - 1 = m + (3 + j)  BY <1>11
    <3>2. u[j] = p[m + (3 + j)]  BY <2>2, <2>3, <3>1
    <3>3. \A t \in 1 .. l : p[m + (3 + t)] = w[t]  BY <1>10, Zenon
    <3> QED  BY <3>2, <3>3
  <2>5. u = w  BY <1>7, <2>2, <2>3, <2>4, SeqEqual
  <2> QED  BY <2>1, <2>5
<1>17. HasRead(s, x, m)  BY <1>1
<1>18. s.i = i  BY <1>11, <1>17 DEF HasRead
<1>19. Round(p, s) = ItemRound(s, e + 1, p[i + 1], SubSeq(p, i + 3, e - 1))
  BY <1>15, <1>18, RoundFull
<1>20. q = Round(p, s)
  <2>1. k + 1 \in 1 .. Len(p) /\ (k + 1) - 1 = k  BY <1>6, <1>8
  <2> QED  BY <1>1, <2>1, RoundsAre
<1>21. p[i + 1] = key  BY <1>10, <1>12, Zenon
<1>22. Field(key, w) \in Outs  BY <1>2, <1>4, ChunkTyped
<1>23. q = ItemRound(s, m + n + 1, key, w)
  BY <1>11, <1>16, <1>19, <1>20, <1>21, Zenon
<1>24. y.out = Append(x.out, Field(key, w))  BY <1>2, <1>5
<1>25. HasRead(q, y, m + n)  BY <1>17, <1>22, <1>23, <1>24, ReadsItem
<1> QED  BY <1>1, <1>25

(* The loop reads a pattern that is written, whatever follows it.          *)
LEMMA LoopReads ==
    ASSUME NEW n \in 0 .. MaxPattern, NEW y \in Written[n], NEW p \in Seq(Chars), Continues(p, y, n)
    PROVE  \E k \in 0 .. n : HasRead(Rounds(p)[k], y, n)
<1> DEFINE S == {m \in Nat : m <= MaxPattern =>
                    \A z \in Written[m] : Continues(p, z, m) => \E k \in 0 .. m : HasRead(Rounds(p)[k], z, m)}
<1>1. ASSUME NEW m \in Nat, \A l \in 0 .. m - 1 : l \in S PROVE m \in S
  <2> SUFFICES ASSUME m <= MaxPattern, NEW z \in Written[m], Continues(p, z, m)
               PROVE  \E k \in 0 .. m : HasRead(Rounds(p)[k], z, m)
    OBVIOUS
  <2>1. CASE m = 0
    <3>1. z = Nothing  BY <2>1, WrittenZero
    <3>2. Rounds(p)[0] = Begun  BY RoundsAre
    <3>3. Begun.i = 1 /\ Begun.nstr = << >> /\ Begun.items = << >> /\ ~Begun.error  BY DEF Begun
    <3>4. << >> \in Seq(Items) /\ << >> \in Seq(Chars)  OBVIOUS
    <3>5. << >> \o Flush(<< >>) = << >>  BY <3>4, FlushTyped
    <3>6. Line(<< >>) = << >>  BY DEF Line, format
    <3>7. Nothing.out = << >>  BY DEF Nothing
    <3>8. HasRead(Begun, Nothing, 0)  BY <3>3, <3>4, <3>5, <3>6, <3>7 DEF HasRead
    <3> QED  BY <2>1, <3>1, <3>2, <3>8
  <2>2. CASE m # 0
    <3>1. m \in 1 .. MaxPattern  BY <2>2, PatternAssumption
    <3>2. PICK j \in 1 .. m : \E x \in Written[m - j], c \in Chunks(j) : MayFollow(x, c) /\ z = Join(x, c)
      BY <3>1, WrittenSteps
    <3>3. PICK x \in Written[m - j], c \in Chunks(j) : MayFollow(x, c) /\ z = Join(x, c)  BY <3>2
    <3>4. PICK l \in Nat : l = m - j  OBVIOUS
    <3>5. l \in 0 .. m - 1 /\ l \in 0 .. MaxPattern /\ l <= MaxPattern /\ j \in Nat \ {0} /\ j \in Nat /\ l + j = m
      BY <3>4, PatternAssumption
    <3>6. x \in Written[l] /\ WellWritten(x, l)  BY <3>3, <3>4, <3>5, WrittenTyped
    <3>7. Joined(x, c, z, l, j)  BY <3>3, <3>5, <3>6, JoinTyped
    <3>8. Continues(p, x, l)
      <4>1. m <= Len(p) /\ \A i \in 1 .. m : p[i] = z.chars[i]  BY DEF Continues
      <4>2. \A i \in 1 .. l : i \in 1 .. m  BY <3>5
      <4>3. \A i \in 1 .. l : p[i] = x.chars[i]  BY <3>7, <4>1, <4>2 DEF Joined
      <4>4. p[l + 1] = c.chars[1]
        <5>1. l + 1 \in 1 .. m /\ 1 \in 1 .. j  BY <3>5
        <5> QED  BY <3>7, <4>1, <5>1 DEF Joined
      <4>5. x.last = "bare" => p[l + 1] \notin Letters \cup {"{"}  BY <3>3, <4>4 DEF MayFollow
      <4>6. l <= Len(p)  BY <3>5, <4>1
      <4> QED  BY <4>3, <4>5, <4>6 DEF Continues
    <3>9. PICK k \in 0 .. l : HasRead(Rounds(p)[k], x, l)  BY <1>1, <3>5, <3>6, <3>8
    <3>10. k \in Nat /\ k <= l /\ k + j \in 0 .. m /\ k + 1 \in 0 .. m  BY <3>5
    <3>11. Continues(p, z, l + j)  BY <3>5
    <3>12. ASSUME NEW w \in Seq(Chars), c = TextChunk(w), Len(w) = j, NoPercent(w)
           PROVE  HasRead(Rounds(p)[k + j], z, l + j)
      <4>1. c.kind = "text"  BY <3>12 DEF TextChunk
      <4>2. x.last # "text"  BY <3>3, <4>1 DEF MayFollow
      <4>3. TextChunk(w) \in Chunks(j) /\ z = Join(x, TextChunk(w))  BY <3>3, <3>12
      <4> QED  BY <3>5, <3>6, <3>9, <3>10, <3>11, <3>12, <4>2, <4>3, ReadsText
    <3>13. ASSUME NEW key \in Keys, c = BareChunk(key), j = 2
           PROVE  HasRead(Rounds(p)[k + 1], z, l + j)
      <4>1. z = Join(x, BareChunk(key)) /\ Continues(p, z, l + 2)  BY <3>3, <3>11, <3>13
      <4>2. HasRead(Rounds(p)[k + 1], z, l + 2)  BY <3>6, <3>9, <3>10, <4>1, ReadsBare
      <4> QED  BY <3>13, <4>2
    <3>14. ASSUME NEW key \in Keys, NEW w \in Seq(Chars), c = FullChunk(key, w), Len(w) = j - 4, NoClosing(w)
           PROVE  HasRead(Rounds(p)[k + 1], z, l + j)
      <4>1. z = Join(x, FullChunk(key, w)) /\ Len(w) + 4 = j  BY <3>3, <3>5, <3>14
      <4> QED  BY <3>5, <3>6, <3>9, <3>10, <3>11, <3>14, <4>1, ReadsFull
    <3>15. HasRead(Rounds(p)[k + j], z, l + j) \/ HasRead(Rounds(p)[k + 1], z, l + j)
      BY <3>5, <3>12, <3>13, <3>14, ChunkShape
    <3> QED  BY <3>5, <3>10, <3>15
  <2> QED  BY <2>1, <2>2
<1> HIDE DEF S
<1>2. \A m \in Nat : m \in S  BY <1>1, StrongInduction
<1>3. n \in Nat /\ n <= MaxPattern  BY PatternAssumption
<1> QED  BY <1>2, <1>3 DEF S

(* The first half: what is written is accepted, and written to the line.   *)
LEMMA WrittenIsRead ==
    ASSUME NEW n \in 0 .. MaxPattern, NEW y \in Written[n]
    PROVE  ~isError(y.chars) /\ format(init(y.chars).items, SampleEvent) = y.out
<1>1. PICK p : p = y.chars  OBVIOUS
<1>2. p \in Seq(Chars) /\ Len(p) = n  BY <1>1, WrittenTyped DEF WellWritten
<1>3. Continues(p, y, n)
  <2>1. n <= Len(p) /\ ~(n < Len(p))  BY <1>2
  <2> QED  BY <1>1, <2>1, Zenon DEF Continues
<1>4. PICK k \in 0 .. n : HasRead(Rounds(p)[k], y, n)  BY <1>2, <1>3, LoopReads
<1>5. PICK s : s = Rounds(p)[Len(p)]  OBVIOUS
<1>6. HasRead(s, y, n)
  <2>1. Rounds(p)[k].i = Len(p) + 1  BY <1>2, <1>4 DEF HasRead
  <2>2. k \in 0 .. Len(p)  BY <1>2
  <2>3. s = Rounds(p)[k]  BY <1>2, <1>5, <2>1, <2>2, RoundsStay
  <2> QED  BY <1>4, <2>3
<1>7. PICK a, b, r : a = s.items \o Flush(s.nstr) /\ b = s.error /\ r = init(p)  OBVIOUS
<1>8. r = [items |-> a, error |-> b]  BY <1>5, <1>7, Zenon DEF init
<1>9. r.items = a /\ r.error = b  BY <1>8
<1> QED  BY <1>1, <1>6, <1>7, <1>9, Zenon DEF HasRead, isError, Line

-----------------------------------------------------------------------------
(* What the loop accepts is written                                        *)

(* So far the loop has accepted w, m characters long, and the text behind. *)
Accepted(p, s, m, w) ==
    /\ w.last # "text" /\ Continues(p, w, m)
    /\ s.nstr \in Seq(Chars) /\ m + Len(s.nstr) + 1 = s.i
    /\ \A j \in 1 .. Len(s.nstr) : s.nstr[j] = p[m + j] /\ p[m + j] # "%"

Accepts(p, s, k) ==
    /\ s.i \in 1 .. Len(p) + 1 /\ (k < s.i \/ s.i = Len(p) + 1)
    /\ \E m \in 0 .. Len(p) : \E w \in Written[m] : Accepted(p, s, m, w)

(* The text may be taken in.                                               *)
LEMMA TextTaken ==
    ASSUME NEW p \in Seq(Chars), Len(p) <= MaxPattern, NEW s, s.i \in 1 .. Len(p) + 1,
           NEW m \in 0 .. Len(p), NEW w \in Written[m], Accepted(p, s, m, w), NEW n \in Nat, s.i = n + 1
    PROVE  \E x \in Written[n] : \A j \in 1 .. n : p[j] = x.chars[j]
<1>1. PICK a : a = s.nstr  OBVIOUS
<1>2. a \in Seq(Chars) /\ \A j \in 1 .. Len(a) : a[j] = p[m + j] /\ p[m + j] # "%"  BY <1>1 DEF Accepted
<1>3. m + Len(a) + 1 = s.i  BY <1>1 DEF Accepted
<1>4. Len(p) \in Nat /\ m \in Nat /\ Len(a) \in Nat /\ m + Len(a) = n /\ n <= Len(p) /\ m <= Len(p)  BY <1>2, <1>3
<1>5. Continues(p, w, m)  BY DEF Accepted
<1>6. \A j \in 1 .. m : p[j] = w.chars[j]  BY <1>5 DEF Continues
<1>7. CASE Len(a) = 0
  <2>1. m = n  BY <1>4, <1>7
  <2> QED  BY <1>6, <2>1
<1>8. CASE Len(a) # 0
  <2>1. PICK l \in Nat \ {0} : l = Len(a)  BY <1>4, <1>8
  <2>2. PICK c, x : c = TextChunk(a) /\ x = Join(w, c)  OBVIOUS
  <2>3. c.kind = "text" /\ c.chars = a  BY <2>2 DEF TextChunk
  <2>4. c \in Chunks(l)
    <3>1. NoPercent(a)  BY <1>2 DEF NoPercent
    <3> QED  BY <1>2, <2>1, <2>2, <3>1, TextIn
  <2>5. MayFollow(w, c)
    <3>1. w.last # "text"  BY DEF Accepted
    <3>2. m < Len(p) /\ 1 \in 1 .. Len(a)  BY <1>4, <2>1
    <3>3. c.chars[1] = p[m + 1]  BY <1>2, <2>3, <3>2
    <3>4. w.last = "bare" => p[m + 1] \notin Letters \cup {"{"}  BY <1>5, <3>2 DEF Continues
    <3> QED  BY <3>1, <3>3, <3>4 DEF MayFollow
  <2>6. m + l <= MaxPattern /\ m + l = n /\ m \in 0 .. MaxPattern  BY <1>4, <2>1, PatternAssumption
  <2>7. x \in Written[m + l]  BY <1>4, <2>2, <2>4, <2>5, <2>6, WrittenGrows
  <2>8. WellWritten(w, m)  BY <2>6, WrittenTyped
  <2>9. Joined(w, c, x, m, l)  BY <1>4, <2>2, <2>4, <2>8, JoinTyped
  <2>10. ASSUME NEW j \in 1 .. n PROVE p[j] = x.chars[j]
    <3>1. CASE j <= m
      <4>1. j \in 1 .. m  BY <3>1, <1>4
      <4> QED  BY <1>6, <2>9, <4>1 DEF Joined
    <3>2. CASE ~(j <= m)
      <4>1. PICK r \in Nat : r = j - m  BY <3>2, <1>4
      <4>2. r \in 1 .. l /\ m + r = j  BY <3>2, <1>4, <2>6, <4>1
      <4>3. x.chars[m + r] = c.chars[r]  BY <2>9, <4>2 DEF Joined
      <4>4. p[m + r] = a[r]  BY <1>2, <2>1, <4>2
      <4> QED  BY <2>3, <4>2, <4>3, <4>4
    <3> QED  BY <3>1, <3>2
  <2> QED  BY <2>6, <2>7, <2>10
<1> QED  BY <1>7, <1>8

(* A directive behind it may be taken in as well.                          *)
ReadNext(p, n, l, c, t) ==
    /\ c.kind # "text" /\ c.chars[1] = "%" /\ \A j \in 1 .. l : p[n + j] = c.chars[j]
    /\ c.kind = "bare" /\ n + l < Len(p) => p[n + l + 1] \notin Letters \cup {"{"}
    /\ t.i = n + l + 1 /\ t.nstr = << >>

(* Then the pattern so far is written.                                     *)
LEMMA DirectiveTaken ==
    ASSUME NEW p \in Seq(Chars), NEW n \in Nat, NEW l \in Nat \ {0}, n + l <= Len(p), Len(p) <= MaxPattern,
           NEW x \in Written[n], \A j \in 1 .. n : p[j] = x.chars[j],
           NEW c \in Chunks(l), NEW t, ReadNext(p, n, l, c, t)
    PROVE  \E w \in Written[n + l] : Accepted(p, t, n + l, w)
<1>1. PICK w : w = Join(x, c)  OBVIOUS
<1>2. MayFollow(x, c)  BY CharsAssumption DEF MayFollow, ReadNext
<1>3. Len(p) \in Nat /\ n + l <= MaxPattern /\ n \in 0 .. MaxPattern /\ l \in Nat /\ n + l \in Nat
  BY PatternAssumption
<1>4. w \in Written[n + l]  BY <1>1, <1>2, <1>3, WrittenGrows
<1>5. WellWritten(x, n)  BY <1>3, WrittenTyped
<1>6. Joined(x, c, w, n, l)  BY <1>1, <1>3, <1>5, JoinTyped
<1>7. ASSUME NEW j \in 1 .. n + l PROVE p[j] = w.chars[j]
  <2>1. CASE j <= n
    <3>1. j \in 1 .. n  BY <2>1
    <3> QED  BY <1>6, <3>1 DEF Joined
  <2>2. CASE ~(j <= n)
    <3>1. PICK r \in Nat : r = j - n  BY <2>2
    <3>2. r \in 1 .. l /\ n + r = j  BY <2>2, <3>1
    <3>3. w.chars[n + r] = c.chars[r]  BY <1>6, <3>2 DEF Joined
    <3> QED  BY <3>2, <3>3 DEF ReadNext
  <2> QED  BY <2>1, <2>2
<1>8. w.last = c.kind  BY <1>6 DEF Joined
<1>9. Continues(p, w, n + l)  BY <1>7, <1>8 DEF Continues, ReadNext
<1>10. PICK a : a = << >>  OBVIOUS
<1>11. a \in Seq(Chars) /\ Len(a) = 0 /\ n + l + 0 + 1 = n + l + 1 /\ \A j \in 1 .. 0 : FALSE  BY <1>10
<1>12. t.nstr = a /\ t.i = n + l + 1 /\ w.last # "text"  BY <1>8, <1>10 DEF ReadNext
<1>13. Accepted(p, t, n + l, w)  BY <1>9, <1>11, <1>12 DEF Accepted
<1> QED  BY <1>4, <1>13

(* m_error is never reset.                                                 *)
LEMMA ErrorStays ==
    ASSUME NEW p, NEW s, s.error
    PROVE  Round(p, s).error
BY DEF Round

(* A key alone is taken in.                                                *)
LEMMA BareTaken ==
    ASSUME NEW p \in Seq(Chars), Len(p) <= MaxPattern, NEW n \in Nat, NEW x \in Written[n],
           \A j \in 1 .. n : p[j] = x.chars[j],
           NEW s, s.i = n + 1, Bare(p, n + 1), NEW t, t = Round(p, s)
    PROVE  n + 2 <= Len(p) /\ t.i = n + 3 /\ \E w \in Written[n + 2] : Accepted(p, t, n + 2, w)
<1>1. PICK i \in Nat : i = n + 1  OBVIOUS
<1>2. Bare(p, i) /\ s.i = i  BY <1>1
<1>3. t = ItemRound(s, i + 2, p[i + 1], << >>)  BY <1>2, RoundBare
<1>4. t.i = i + 2 /\ t.nstr = << >>  BY <1>3 DEF ItemRound
<1>5. Named(p, i)  BY <1>2 DEF Bare
<1>6. i \in 1 .. Len(p) - 1 /\ p[i] = "%" /\ p[i + 1] \in Keys  BY <1>5 DEF Named
<1>7. i + 1 = n + 2 /\ i + 2 = n + 2 + 1 /\ n + 2 <= Len(p) /\ n + 3 = i + 2 /\ Len(p) \in Nat  BY <1>1, <1>6
<1>8. PICK key, c : key = p[i + 1] /\ c = BareChunk(key)  OBVIOUS
<1>9. key \in Keys /\ p[n + 1] = "%" /\ p[n + 2] = key  BY <1>1, <1>6, <1>7, <1>8
<1>10. c \in Chunks(2) /\ c.chars[1] = "%" /\ c.chars[2] = key  BY <1>8, <1>9, BareIn, BareChars
<1>11. c.kind = "bare"  BY <1>8 DEF BareChunk
<1>12. \A j \in 1 .. 2 : p[n + j] = c.chars[j]
  <2>1. \A j \in 1 .. 2 : j = 1 \/ j = 2  OBVIOUS
  <2> QED  BY <1>9, <1>10, <2>1, Zenon
<1>13. n + 2 < Len(p) => p[n + 2 + 1] \notin Letters \cup {"{"}
  <2>1. n + 2 < Len(p) => i + 2 <= Len(p)  BY <1>7
  <2> QED  BY <1>2, <1>7, <2>1 DEF Bare
<1>14. ReadNext(p, n, 2, c, t)  BY <1>4, <1>7, <1>10, <1>11, <1>12, <1>13 DEF ReadNext
<1>15. 2 \in Nat \ {0}  OBVIOUS
<1>16. \E w \in Written[n + 2] : Accepted(p, t, n + 2, w)  BY <1>7, <1>10, <1>14, <1>15, DirectiveTaken
<1> QED  BY <1>4, <1>7, <1>16

(* A key with its format is taken in.                                      *)
LEMMA FullTaken ==
    ASSUME NEW p \in Seq(Chars), Len(p) <= MaxPattern, NEW n \in Nat, NEW x \in Written[n],
           \A j \in 1 .. n : p[j] = x.chars[j],
           NEW s, s.i = n + 1, NEW e \in Nat, Full(p, n + 1, e), NEW t, t = Round(p, s)
    PROVE  n + 4 <= e /\ e <= Len(p) /\ t.i = e + 1 /\ \E w \in Written[e] : Accepted(p, t, e, w)
<1>1. PICK i \in Nat : i = n + 1  OBVIOUS
<1>2. Full(p, i, e) /\ s.i = i  BY <1>1
<1>3. PICK fmt : fmt = SubSeq(p, i + 3, e - 1)  OBVIOUS
<1>4. t = ItemRound(s, e + 1, p[i + 1], fmt)  BY <1>2, <1>3, RoundFull
<1>5. t.i = e + 1 /\ t.nstr = << >>  BY <1>4 DEF ItemRound
<1>6. Named(p, i) /\ e \in i + 3 .. Len(p)  BY <1>2 DEF Full
<1>7. i \in 1 .. Len(p) - 1 /\ p[i] = "%" /\ p[i + 1] \in Keys  BY <1>6 DEF Named
<1>8. PICK l \in Nat \ {0} : l = e - n  BY <1>1, <1>6
<1>9. n + l = e /\ n + 4 <= e /\ e <= Len(p) /\ n + l + 1 = e + 1 /\ i + 1 = n + 2 /\ i + 2 = n + 3 /\ Len(p) \in Nat
  BY <1>1, <1>6, <1>8
<1>10. /\ fmt \in Seq(Chars) /\ Len(fmt) = (e - 1) - (i + 3) + 1
       /\ \A j \in 1 .. (e - 1) - (i + 3) + 1 : fmt[j] = p[(i + 3) + j - 1]
  <2>1. i + 3 \in Nat \ {0} /\ e - 1 \in Nat /\ e - 1 <= Len(p) /\ i + 3 <= (e - 1) + 1  BY <1>1, <1>9
  <2> QED  BY <1>3, <2>1, SubSeqIs
<1>11. PICK f \in Nat : f = Len(fmt)  BY <1>10
<1>12. l = f + 4 /\ (e - 1) - (i + 3) + 1 = f  BY <1>1, <1>8, <1>10, <1>11
<1>13. \A j \in 1 .. f : fmt[j] = p[n + (3 + j)]
  <2>1. \A j \in 1 .. f : (i + 3) + j - 1 = n + (3 + j)  BY <1>1
  <2> QED  BY <1>10, <1>12, <2>1
<1>14. NoClosing(fmt)
  <2>1. \A j \in i + 3 .. e - 1 : p[j] # "}"  BY <1>2, Zenon DEF Full
  <2>2. \A j \in 1 .. f : n + (3 + j) \in i + 3 .. e - 1  BY <1>1, <1>12
  <2> QED  BY <1>11, <1>13, <2>1, <2>2, Zenon DEF NoClosing
<1>15. PICK key, c : key = p[i + 1] /\ c = FullChunk(key, fmt)  OBVIOUS
<1>16. key \in Keys  BY <1>7, <1>15
<1>17. p[n + 1] = "%" /\ p[n + 2] = key /\ p[n + 3] = "{" /\ p[n + l] = "}"
  <2>1. p[i + 2] = "{" /\ p[e] = "}"  BY <1>2, Zenon DEF Full
  <2> QED  BY <1>1, <1>7, <1>9, <1>15, <2>1, Zenon
<1>18. c \in Chunks(l)  BY <1>10, <1>11, <1>12, <1>14, <1>15, <1>16, FullIn
<1>19. c.kind = "full"  BY <1>15, Zenon DEF FullChunk
<1>20. PICK u : u = c.chars  OBVIOUS
<1>21. FullShape(key, fmt, u)  BY <1>10, <1>15, <1>16, <1>20, FullChars
<1>22. u[1] = "%" /\ u[2] = key /\ u[3] = "{" /\ u[l] = "}" /\ \A j \in 1 .. f : u[3 + j] = fmt[j]
  BY <1>11, <1>12, <1>21, Zenon DEF FullShape
<1>23. ASSUME NEW j \in 1 .. l PROVE p[n + j] = u[j]
  <2>1. j = 1 \/ j = 2 \/ j = 3 \/ j = l \/ (j - 3 \in 1 .. f /\ 3 + (j - 3) = j)  BY <1>12
  <2>2. ASSUME j - 3 \in 1 .. f, 3 + (j - 3) = j PROVE p[n + j] = u[j]
    <3>1. u[3 + (j - 3)] = fmt[j - 3] /\ fmt[j - 3] = p[n + (3 + (j - 3))]  BY <1>13, <1>22, <2>2, Zenon
    <3> QED  BY <2>2, <3>1, Zenon
  <2> QED  BY <1>17, <1>22, <2>1, <2>2, Zenon
<1>24. ReadNext(p, n, l, c, t)
  <2>1. c.kind # "text" /\ c.kind # "bare"  BY <1>19
  <2>2. \A j \in 1 .. l : p[n + j] = c.chars[j]  BY <1>20, <1>23, Zenon
  <2>3. t.i = n + l + 1  BY <1>5, <1>9
  <2> QED  BY <1>5, <1>20, <1>22, <2>1, <2>2, <2>3, Zenon DEF ReadNext
<1>25. \E w \in Written[n + l] : Accepted(p, t, n + l, w)  BY <1>9, <1>18, <1>24, DirectiveTaken
<1> QED  BY <1>5, <1>9, <1>25

(* A character of a text is taken in.                                      *)
LEMMA CharTaken ==
    ASSUME NEW p \in Seq(Chars), NEW i \in 1 .. Len(p), p[i] # "%", NEW m \in 0 .. Len(p),
           NEW w, NEW s, s.i = i, Accepted(p, s, m, w), NEW t, t = Round(p, s)
    PROVE  t.i = i + 1 /\ Accepted(p, t, m, w)
<1>1. PICK a : a = s.nstr  OBVIOUS
<1>2. a \in Seq(Chars) /\ m + Len(a) + 1 = i /\ \A j \in 1 .. Len(a) : a[j] = p[m + j] /\ p[m + j] # "%"
  BY <1>1 DEF Accepted
<1>3. t = [i |-> i + 1, nstr |-> Append(a, p[i]), items |-> s.items, error |-> s.error]  BY <1>1, RoundText
<1>4. PICK b, l : b = Append(a, p[i]) /\ l = Len(a)  OBVIOUS
<1>5. l \in Nat /\ p[i] \in Chars /\ m + l + 1 = i /\ m + (l + 1) = i /\ i \in Nat  BY <1>2, <1>4
<1>6. b \in Seq(Chars) /\ Len(b) = l + 1 /\ b[l + 1] = p[i] /\ \A j \in 1 .. l : b[j] = a[j]
  BY <1>2, <1>4, <1>5
<1>7. ASSUME NEW j \in 1 .. l + 1 PROVE b[j] = p[m + j] /\ p[m + j] # "%"
  <2>1. CASE j = l + 1  BY <1>5, <1>6, <2>1
  <2>2. CASE j # l + 1
    <3>1. j \in 1 .. l  BY <1>5, <2>2
    <3> QED  BY <1>2, <1>4, <1>6, <3>1
  <2> QED  BY <2>1, <2>2
<1>8. t.i = i + 1 /\ t.nstr = b  BY <1>3, <1>4
<1>9. m + Len(b) + 1 = t.i  BY <1>5, <1>6, <1>8
<1>10. w.last # "text" /\ Continues(p, w, m)  BY DEF Accepted
<1> QED  BY <1>6, <1>7, <1>8, <1>9, <1>10 DEF Accepted

(* A round without an error keeps that the pattern so far is written.      *)
LEMMA RoundAccepts ==
    ASSUME NEW p \in Seq(Chars), Len(p) <= MaxPattern, ~Doubled(p), NEW k \in Nat, NEW s, Accepts(p, s, k),
           NEW t, t = Round(p, s), ~t.error
    PROVE  Accepts(p, t, k + 1)
<1>1. PICK i \in 1 .. Len(p) + 1 : i = s.i  BY DEF Accepts
<1>2. PICK m \in 0 .. Len(p) : \E w \in Written[m] : Accepted(p, s, m, w)  BY DEF Accepts
<1>2a. PICK w \in Written[m] : Accepted(p, s, m, w)  BY <1>2
<1>3. i \in Nat /\ Len(p) \in Nat /\ (k < i \/ i = Len(p) + 1)  BY <1>1 DEF Accepts
<1>4. CASE i = Len(p) + 1
  <2>1. t = s  BY <1>1, <1>4, RoundEnd
  <2> QED  BY <1>1, <1>2, <1>4, <2>1 DEF Accepts
<1>5. CASE i # Len(p) + 1 /\ p[i] # "%"
  <2>1. i \in 1 .. Len(p)  BY <1>3, <1>5
  <2>2. t.i = i + 1 /\ Accepted(p, t, m, w)  BY <1>1, <1>2a, <1>5, <2>1, CharTaken
  <2>3. t.i \in 1 .. Len(p) + 1 /\ k + 1 < t.i  BY <1>3, <2>1, <2>2
  <2> QED  BY <1>2a, <2>2, <2>3 DEF Accepts
<1>6. CASE i # Len(p) + 1 /\ p[i] = "%"
  <2>1. i \in 1 .. Len(p)  BY <1>3, <1>6
  <2>2. Starts(p, i)
    <3>1. ASSUME i < Len(p), p[i + 1] = "%" PROVE FALSE
      <4>1. i \in 1 .. Len(p) - 1  BY <1>3, <2>1, <3>1
      <4> QED  BY <1>6, <3>1, <4>1 DEF Doubled
    <3> QED  BY <1>6, <2>1, <3>1 DEF Starts
  <2>3. PICK n \in Nat : i = n + 1  BY <2>1
  <2>3a. s.i = n + 1 /\ s.i \in 1 .. Len(p) + 1  BY <1>1, <2>3
  <2>4. PICK x \in Written[n] : \A j \in 1 .. n : p[j] = x.chars[j]  BY <1>2a, <2>3a, TextTaken
  <2>5. Bare(p, i) \/ \E e \in Nat : Full(p, i, e)  BY <1>1, <1>3, <2>2, RoundCases
  <2>6. \E e \in 0 .. Len(p) : e >= n + 2 /\ t.i = e + 1 /\ \E v \in Written[e] : Accepted(p, t, e, v)
    <3>1. CASE Bare(p, i)
      <4>1. n + 2 <= Len(p) /\ t.i = n + 3 /\ \E v \in Written[n + 2] : Accepted(p, t, n + 2, v)
        <5>1. Bare(p, n + 1)  BY <2>3, <3>1
        <5>2. p \in Seq(Chars) /\ Len(p) <= MaxPattern /\ s.i = n + 1 /\ t = Round(p, s)  BY <2>3a
        <5> QED  BY <2>4, <5>1, <5>2, BareTaken, Zenon
      <4>2. n + 2 \in 0 .. Len(p) /\ n + 2 >= n + 2 /\ t.i = (n + 2) + 1  BY <1>3, <4>1
      <4> QED  BY <4>1, <4>2
    <3>2. ASSUME NEW e \in Nat, Full(p, i, e)
          PROVE  \E f \in 0 .. Len(p) : f >= n + 2 /\ t.i = f + 1 /\ \E v \in Written[f] : Accepted(p, t, f, v)
      <4>1. n + 4 <= e /\ e <= Len(p) /\ t.i = e + 1 /\ \E v \in Written[e] : Accepted(p, t, e, v)
        <5>1. Full(p, n + 1, e)  BY <2>3, <3>2
        <5>2. p \in Seq(Chars) /\ Len(p) <= MaxPattern /\ s.i = n + 1 /\ t = Round(p, s)  BY <2>3a
        <5> QED  BY <2>4, <5>1, <5>2, FullTaken, Zenon
      <4>2. e \in 0 .. Len(p) /\ e >= n + 2  BY <1>3, <4>1
      <4> QED  BY <4>1, <4>2
    <3> QED  BY <2>5, <3>1, <3>2
  <2>7. PICK e \in 0 .. Len(p) : e >= n + 2 /\ t.i = e + 1 /\ \E v \in Written[e] : Accepted(p, t, e, v)  BY <2>6
  <2>8. t.i \in 1 .. Len(p) + 1 /\ k + 1 < t.i  BY <1>3, <1>6, <2>3, <2>7
  <2> QED  BY <2>7, <2>8 DEF Accepts
<1> QED  BY <1>4, <1>5, <1>6

(* The second half: what is accepted is written.                           *)
LEMMA AcceptedIsWritten ==
    ASSUME NEW n \in 0 .. MaxPattern, NEW p \in Words(Chars, n), ~Doubled(p), ~isError(p)
    PROVE  p \in {y.chars : y \in Written[n]}
<1>1. n \in Nat /\ n <= MaxPattern  BY PatternAssumption
<1>2. p \in Seq(Chars) /\ Len(p) = n  BY <1>1, WordsAre
<1> DEFINE S == {k \in Nat : k <= n => Rounds(p)[k].error \/ Accepts(p, Rounds(p)[k], k)}
<1>3. 0 \in S
  <2>1. PICK s : s = Rounds(p)[0]  OBVIOUS
  <2>2. s = Begun  BY <1>2, <2>1, RoundsAre
  <2>3. s.i = 1 /\ s.nstr = << >>  BY <2>2 DEF Begun
  <2>4. Nothing \in Written[0]  BY WrittenZero
  <2>5. Nothing.last = "none"  BY DEF Nothing
  <2>6. Continues(p, Nothing, 0)
    <3>1. 0 <= Len(p) /\ \A j \in 1 .. 0 : FALSE  BY <1>1, <1>2
    <3> QED  BY <2>5, <3>1 DEF Continues
  <2>7. PICK a : a = << >>  OBVIOUS
  <2>8. a \in Seq(Chars) /\ Len(a) = 0 /\ 0 + 0 + 1 = 1 /\ \A j \in 1 .. 0 : FALSE  BY <2>7
  <2>9. s.nstr = a  BY <2>3, <2>7
  <2>10. Accepted(p, s, 0, Nothing)  BY <2>3, <2>5, <2>6, <2>8, <2>9 DEF Accepted
  <2>11. 0 \in 0 .. Len(p) /\ 1 \in 1 .. Len(p) + 1 /\ 0 < 1  BY <1>1, <1>2
  <2>12. Accepts(p, s, 0)  BY <2>3, <2>4, <2>10, <2>11 DEF Accepts
  <2> QED  BY <2>1, <2>12
<1>4. ASSUME NEW k \in Nat, k \in S PROVE k + 1 \in S
  <2> SUFFICES ASSUME k + 1 <= n PROVE Rounds(p)[k + 1].error \/ Accepts(p, Rounds(p)[k + 1], k + 1)  OBVIOUS
  <2>1. PICK s, t : s = Rounds(p)[k] /\ t = Rounds(p)[k + 1]  OBVIOUS
  <2>2. k <= n /\ k + 1 \in 1 .. Len(p) /\ (k + 1) - 1 = k  BY <1>1, <1>2
  <2>3. t = Round(p, s)  BY <1>2, <2>1, <2>2, RoundsAre
  <2>4. CASE s.error  BY <2>1, <2>3, <2>4, ErrorStays
  <2>5. CASE ~s.error
    <3>1. Accepts(p, s, k)  BY <1>4, <2>1, <2>2, <2>5
    <3>2. ~t.error => Accepts(p, t, k + 1)  BY <1>1, <1>2, <2>3, <3>1, RoundAccepts
    <3> QED  BY <2>1, <3>2
  <2> QED  BY <2>4, <2>5
<1> HIDE DEF S
<1>5. \A k \in Nat : k \in S  BY <1>3, <1>4, StepInduction
<1>6. PICK s : s = Rounds(p)[Len(p)]  OBVIOUS
<1>7. s.error \/ Accepts(p, s, n)  BY <1>1, <1>2, <1>5, <1>6 DEF S
<1>8. ~s.error
  <2>1. PICK a, b, r : a = s.items \o Flush(s.nstr) /\ b = s.error /\ r = init(p)  OBVIOUS
  <2>2. r = [items |-> a, error |-> b]  BY <1>6, <2>1, Zenon DEF init
  <2>3. r.error = b  BY <2>2
  <2> QED  BY <2>1, <2>3 DEF isError
<1>9. Accepts(p, s, n)  BY <1>7, <1>8
<1>10. s.i = n + 1 /\ s.i \in 1 .. Len(p) + 1  BY <1>1, <1>2, <1>9 DEF Accepts
<1>11. PICK m \in 0 .. Len(p) : \E w \in Written[m] : Accepted(p, s, m, w)  BY <1>9 DEF Accepts
<1>12. PICK x \in Written[n] : \A j \in 1 .. n : p[j] = x.chars[j]  BY <1>1, <1>2, <1>10, <1>11, TextTaken
<1>13. x.chars = p
  <2>1. PICK a : a = x.chars  OBVIOUS
  <2>2. a \in Seq(Chars) /\ Len(a) = n  BY <1>12, <2>1, WrittenTyped DEF WellWritten
  <2>3. \A j \in 1 .. Len(a) : a[j] = p[j]  BY <1>12, <2>1, <2>2
  <2>4. a = p  BY <1>2, <2>2, <2>3, SeqEqual
  <2> QED  BY <2>1, <2>4
<1> QED  BY <1>12, <1>13, Zenon

(* init() accepts exactly the patterns of the grammar, however long they   *)
(* are (MaxPattern is any number), and the line holds the texts and fields *)
(* they ask for; isError() reports the others (log.cc:436).                *)
THEOREM PatternsOfAnyLength == ReadsPatterns
<1>1. ASSUME NEW n \in 0 .. MaxPattern, NEW y \in Written[n]
      PROVE  ~isError(y.chars) /\ format(init(y.chars).items, SampleEvent) = y.out
  BY WrittenIsRead
<1>2. ASSUME NEW n \in 0 .. MaxPattern, NEW p \in Words(Chars, n)
      PROVE  Doubled(p) \/ isError(p) \/ p \in {y.chars : y \in Written[n]}
  BY AcceptedIsWritten
<1> QED  BY <1>1, <1>2, Zenon DEF ReadsPatterns

(* So the invariant of the run holds for any bound on the patterns.        *)
THEOREM PatternsAreRead == Spec => []PatternsRead
<1>1. PatternsRead  BY PatternsOfAnyLength DEF PatternsRead
<1> QED  BY <1>1, PTL
=============================================================================
