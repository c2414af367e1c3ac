-------------------------- MODULE AppTunnelProofs --------------------------
(***************************************************************************)
(* For every number of runs, events, taps and configurations: what the     *)
(* journal keeps over a crash and shows after a restart, and what the      *)
(* button shows.                                                           *)
(***************************************************************************)
EXTENDS AppTunnel, Induction, SequenceTheorems, TLAPS

-----------------------------------------------------------------------------
(* The journal *)

\* What a step can do to the journal.
LogStep ==
  \/ UNCHANGED log
  \/ startTunnel \/ settingsFailed \/ settingsDone \/ announce
  \/ postEvent \/ ioTimer \/ stopTunnel \/ stopDone \/ ProcessEnds

\* Every step of app and extension is one of those for the journal.
LEMMA StepsOfLog == [Next]_vars => LogStep
BY DEF Next, vars, LogStep, SystemSwitches, Launches, Comes, Announces, Started, Failed, Stops,
       Stopped, StopsEarly, Dies

Events == Nat \X Nat

LogData ==
  /\ entries \in Seq(Events) /\ Len(entries) <= Keep
  /\ file \in Seq(Events) /\ prevRun \in Seq(Events)
  /\ unflushed \in Nat /\ unflushed < FlushEvery
  /\ run \in Nat /\ count \in Nat

\* The next line of the run is appended, and all lines flushed or one more is not.
AddsLine ==
  /\ entries' = Appended(NextLine)
  /\ \/ file' = entries' /\ unflushed' = 0 /\ written' = written \cup {run}
     \/ file' = file /\ unflushed' = unflushed + 1 /\ unflushed' < FlushEvery /\ written' = written
  /\ count' = count + 1
  /\ UNCHANGED <<live, run, prevRun, stopped>>

\* That is what the calls of append come to.
LEMMA Adds ==
  ASSUME LogData, announce \/ postEvent \/ ioTimer \/ stopTunnel
  PROVE  AddsLine
<1>1. unflushed \in Nat /\ FlushEvery \in Nat
  BY LogAssumption DEF LogData
<1>2. ASSUME appendNext
      PROVE  /\ entries' = Appended(NextLine)
             /\ \/ file' = entries' /\ unflushed' = 0 /\ written' = written \cup {run}
                \/ /\ file' = file /\ unflushed' = unflushed + 1 /\ unflushed' < FlushEvery
                   /\ written' = written
             /\ count' = count + 1
  BY <1>1, <1>2 DEF appendNext, append, flushLocked
<1>3. CASE announce \/ postEvent \/ stopTunnel
  <2>1. appendNext /\ UNCHANGED <<live, run, prevRun, stopped>>
    BY <1>3 DEF announce, postEvent, stopTunnel
  <2> QED BY <1>2, <2>1 DEF AddsLine
<1>4. CASE ioTimer
  BY <1>4 DEF ioTimer, flushLocked, AddsLine
<1> QED BY <1>3, <1>4

\* The next line is a line.
LEMMA NextLineType ==
  ASSUME LogData
  PROVE  NextLine \in Events /\ NextLine[1] = run /\ NextLine[2] = count + 1
BY DEF LogData, NextLine, Events

\* The entries a crash leaves in the file, one by one.
Kept ==
  LET safe == Len(entries) - unflushed
  IN  safe > 0 => /\ safe <= Len(file)
                  /\ \A j \in 1 .. safe : file[Len(file) - safe + j] = entries[j]

\* An appended event is the last entry; the others move up if the journal is full.
LEMMA AppendedFacts ==
  ASSUME LogData, NEW e \in Events
  PROVE  LET full == Len(entries) = Keep
             new == Appended(e)
         IN  /\ new \in Seq(Events)
             /\ Len(new) = IF full THEN Keep ELSE Len(entries) + 1
             /\ Len(new) >= 1 /\ Len(new) <= Keep
             /\ new[Len(new)] = e
             /\ \A i \in 1 .. Len(new) - 1 : new[i] = entries[IF full THEN i + 1 ELSE i]
<1> DEFINE all == Append(entries, e)
           first == 1 + IF Len(all) > Keep THEN Len(all) - Keep ELSE 0
<1>1. /\ entries \in Seq(Events) /\ Len(entries) \in Nat /\ Len(entries) <= Keep
      /\ Keep \in Nat /\ Keep >= 1
  BY LogAssumption DEF LogData
<1>2. /\ all \in Seq(Events) /\ Len(all) = Len(entries) + 1
      /\ all[Len(entries) + 1] = e /\ \A i \in 1 .. Len(entries) : all[i] = entries[i]
  BY <1>1
<1>3. first = IF Len(entries) = Keep THEN 2 ELSE 1
  BY <1>1, <1>2
<1>4. Appended(e) = SubSeq(all, first, Len(all))
  BY DEF Appended
<1> HIDE DEF all, first
<1>5. /\ SubSeq(all, first, Len(all)) \in Seq(Events)
      /\ Len(SubSeq(all, first, Len(all))) = Len(all) - first + 1
      /\ \A i \in 1 .. Len(all) - first + 1 :
           SubSeq(all, first, Len(all))[i] = all[first + i - 1]
  <2>1. \A i \in first .. Len(all) : all[i] \in Events
    BY <1>1, <1>2, <1>3
  <2>2. first \in Int /\ Len(all) \in Int /\ first <= Len(all)
    BY <1>1, <1>2, <1>3
  <2> QED BY <2>1, <2>2, SubSeqProperties
<1>6. CASE Len(entries) = Keep
  BY <1>1, <1>2, <1>3, <1>4, <1>5, <1>6
<1>7. CASE Len(entries) # Keep
  <2> DEFINE new == Appended(e)
  <2>1. first = 1 /\ new \in Seq(Events) /\ Len(new) = Len(entries) + 1
    BY <1>1, <1>2, <1>3, <1>4, <1>5, <1>7
  <2>2. \A i \in 1 .. Len(entries) + 1 : new[i] = all[i]
    BY <1>1, <1>2, <1>4, <1>5, <2>1
  <2> HIDE DEF new
  <2>3. new[Len(new)] = e /\ \A i \in 1 .. Len(new) - 1 : new[i] = entries[i]
    BY <1>1, <1>2, <2>1, <2>2
  <2>4. Len(new) >= 1 /\ Len(new) <= Keep
    BY <1>1, <1>7, <2>1
  <2> QED BY <1>7, <2>1, <2>3, <2>4 DEF new
<1> QED BY <1>6, <1>7

\* What a flush or an append leaves: the types of the journal.
LEMMA LogDataStep ==
  ASSUME LogData, LogStep
  PROVE  LogData'
<1>1. CASE UNCHANGED log
  BY <1>1 DEF log, LogData
<1>2. CASE startTunnel \/ settingsFailed
  BY <1>2 DEF startTunnel, settingsFailed, LogData
<1>3. CASE settingsDone
  BY <1>3 DEF settingsDone, loadPrevious, LogData
<1>4. CASE announce \/ postEvent \/ ioTimer \/ stopTunnel
  <2>1. AddsLine
    BY <1>4, Adds
  <2>2. entries' \in Seq(Events) /\ Len(entries') <= Keep
    BY <2>1, NextLineType, AppendedFacts DEF AddsLine
  <2>3. unflushed' \in Nat /\ unflushed' < FlushEvery /\ file' \in Seq(Events)
    BY <2>1, <2>2, LogAssumption DEF AddsLine, LogData
  <2>4. run' \in Nat /\ count' \in Nat /\ prevRun' \in Seq(Events)
    BY <2>1 DEF AddsLine, LogData
  <2> QED BY <2>2, <2>3, <2>4 DEF LogData
<1>5. CASE stopDone
  BY <1>5, LogAssumption DEF stopDone, flushLocked, LogData
<1>6. CASE ProcessEnds
  BY <1>6, LogAssumption DEF ProcessEnds, LogData
<1> QED BY <1>1, <1>2, <1>3, <1>4, <1>5, <1>6 DEF LogStep

\* An append without a flush: the safe entries stay, or the first of them goes.
LEMMA KeptAppend ==
  ASSUME LogData, Kept, NEW e \in Events,
         entries' = Appended(e), unflushed' = unflushed + 1, file' = file
  PROVE  Kept'
<1> DEFINE safe == Len(entries) - unflushed
<1>1. /\ Len(entries) \in Nat /\ unflushed \in Nat /\ Keep \in Nat /\ Len(entries) <= Keep
      /\ Len(file) \in Nat
  BY LogAssumption DEF LogData
<1>2. /\ Len(entries') = IF Len(entries) = Keep THEN Keep ELSE Len(entries) + 1
      /\ \A i \in 1 .. Len(entries') - 1 :
           entries'[i] = entries[IF Len(entries) = Keep THEN i + 1 ELSE i]
  BY AppendedFacts
<1>3. safe > 0 => /\ safe <= Len(file)
                  /\ \A j \in 1 .. safe : file[Len(file) - safe + j] = entries[j]
  BY DEF Kept
<1>4. CASE Len(entries) = Keep
  <2>1. Len(entries') - unflushed' = safe - 1
    BY <1>1, <1>2, <1>4
  <2>2. ASSUME safe - 1 > 0, NEW j \in 1 .. safe - 1
        PROVE  file[Len(file) - (safe - 1) + j] = entries'[j]
    <3>1. j + 1 \in 1 .. safe /\ j \in 1 .. Len(entries') - 1
      BY <1>1, <1>2, <1>4, <2>2
    <3>2. file[Len(file) - safe + (j + 1)] = entries[j + 1] /\ entries'[j] = entries[j + 1]
      BY <1>1, <1>2, <1>3, <1>4, <2>2, <3>1
    <3>3. Len(file) - (safe - 1) + j = Len(file) - safe + (j + 1)
      BY <1>1
    <3> QED BY <3>2, <3>3
  <2> HIDE DEF safe
  <2>3. safe - 1 > 0 => safe - 1 <= Len(file)
    BY <1>1, <1>3 DEF safe
  <2> QED BY <2>1, <2>2, <2>3 DEF Kept
<1>5. CASE Len(entries) # Keep
  <2>1. Len(entries') - unflushed' = safe
    BY <1>1, <1>2, <1>5
  <2>2. ASSUME safe > 0, NEW j \in 1 .. safe PROVE entries'[j] = entries[j]
    BY <1>1, <1>2, <1>5, <2>2
  <2> HIDE DEF safe
  <2> QED BY <1>3, <2>1, <2>2 DEF Kept
<1> QED BY <1>4, <1>5

\* The flush writes all entries.
LEMMA KeptFlush ==
  ASSUME LogData', unflushed' = 0, file' = entries'
  PROVE  Kept'
<1>1. Len(entries') \in Nat
  BY DEF LogData
<1> QED BY <1>1 DEF Kept

\* Only an append can leave lines out of the file, one at a time.
LEMMA KeptStep ==
  ASSUME LogData, Kept, LogStep
  PROVE  Kept'
<1>1. LogData'
  BY LogDataStep
<1>2. CASE UNCHANGED <<entries, unflushed, file>>
  BY <1>2 DEF Kept
<1>3. CASE announce \/ postEvent \/ ioTimer \/ stopTunnel
  <2>1. AddsLine /\ NextLine \in Events
    BY <1>3, Adds, NextLineType
  <2>2. CASE file' = entries' /\ unflushed' = 0
    BY <1>1, <2>2, KeptFlush
  <2>3. CASE file' = file /\ unflushed' = unflushed + 1
    BY <2>1, <2>3, KeptAppend DEF AddsLine
  <2> QED BY <2>1, <2>2, <2>3 DEF AddsLine
<1>4. CASE stopDone
  BY <1>1, <1>4, KeptFlush DEF stopDone, flushLocked
<1>5. CASE ProcessEnds
  <2>1. Len(entries') = 0 /\ unflushed' = 0
    BY <1>5 DEF ProcessEnds
  <2> QED BY <2>1 DEF Kept
<1> QED BY <1>2, <1>3, <1>4, <1>5
        DEF LogStep, log, startTunnel, settingsFailed, settingsDone

\* EventLog.swift:44: "a crash costs less than FlushEvery entries".  Whenever the
\* process is killed, journal.log ends with all lines but fewer than FlushEvery.
THEOREM CrashCostsLittle == Spec => []CrashLosesLittle
<1>1. Init => LogData /\ Kept
  BY LogAssumption DEF Init, LogInit, LogData, Kept
<1>2. LogData /\ Kept /\ [Next]_vars => (LogData /\ Kept)'
  BY StepsOfLog, LogDataStep, KeptStep
<1>3. LogData /\ Kept => CrashLosesLittle
  <2> SUFFICES ASSUME LogData, Kept PROVE CrashLosesLittle
    OBVIOUS
  <2>9. unflushed \in 0 .. FlushEvery - 1
    BY LogAssumption DEF LogData
  <2> SUFFICES ASSUME Len(entries) - unflushed > 0
               PROVE  \E k \in 0 .. Len(file) :
                        SubSeq(file, k + 1, Len(file)) = SubSeq(entries, 1, Len(entries) - unflushed)
    BY <2>9, Zenon DEF CrashLosesLittle
  <2> DEFINE safe == Len(entries) - unflushed
             k == Len(file) - safe
  <2>1. /\ entries \in Seq(Events) /\ file \in Seq(Events)
        /\ safe \in Int /\ safe > 0 /\ safe <= Len(entries) /\ safe <= Len(file)
        /\ \A j \in 1 .. safe : file[Len(file) - safe + j] = entries[j]
    BY DEF LogData, Kept
  <2> HIDE DEF safe
  <2>2. k \in 0 .. Len(file)
    BY <2>1
  <2>3. /\ SubSeq(file, k + 1, Len(file)) \in Seq(Events)
        /\ Len(SubSeq(file, k + 1, Len(file))) = safe
        /\ \A i \in 1 .. safe : SubSeq(file, k + 1, Len(file))[i] = file[k + i]
    <3>1. \A i \in k + 1 .. Len(file) : file[i] \in Events
      BY <2>1, <2>2
    <3>2. k + 1 \in Int /\ Len(file) \in Int /\ k + 1 <= Len(file) /\ Len(file) - (k + 1) + 1 = safe
      BY <2>1, <2>2
    <3>3. \A i \in 1 .. safe : (k + 1) + i - 1 = k + i
      BY <2>1, <2>2
    <3> HIDE DEF k
    <3> QED BY <3>1, <3>2, <3>3, SubSeqProperties
  <2>4. /\ SubSeq(entries, 1, safe) \in Seq(Events)
        /\ Len(SubSeq(entries, 1, safe)) = safe
        /\ \A i \in 1 .. safe : SubSeq(entries, 1, safe)[i] = entries[i]
    BY <2>1
  <2>5. SubSeq(file, k + 1, Len(file)) = SubSeq(entries, 1, safe)
    BY <2>1, <2>3, <2>4, SeqEqual
  <2> QED BY <2>2, <2>5 DEF safe
<1> QED BY <1>1, <1>2, <1>3, PTL DEF Spec

-----------------------------------------------------------------------------
(* The journal of the run before *)

IsTop(S, m) == m \in S /\ \A x \in S : x <= m

\* After some entry, which is s unless Keep lines have come since, es holds nothing
\* but later lines of the run of s.
SeenIn(es, s) ==
  \E i \in 0 .. Len(es) :
    /\ IF i = 0 THEN Len(es) = Keep ELSE es[i] = s
    /\ \A j \in i + 1 .. Len(es) : es[j][1] = s[1] /\ es[j][2] > s[2]

\* What a journal that ends with run m, when "ended" are the stops so far, shows.
Shows(es, m, ended) ==
  /\ Len(es) > 0 /\ es[Len(es)][1] = m
  /\ \A s \in ended : s[1] = m => SeenIn(es, s)

Before == {r \in written : r < run}

\* The file ends with the last run that wrote it, and shows its stop.
FileShown ==
  /\ written \subseteq 1 .. run
  /\ \A s \in stopped : s[1] \in written
  /\ \A m \in written : IsTop(written, m) => Shows(file, m, stopped)

\* The stop s of the current run is seen in memory.
Recent(s) == s[2] <= count /\ (live => SeenIn(entries, s))

\* As long as the process lives, so is the stop of its run in memory.
StopKept ==
  /\ stopped \subseteq Events
  /\ live => run >= 1
  /\ tunnel \in {"worker", "fronts", "start", "up", "stopping"} => live
  /\ tunnel = "stopping" => reason \in Events /\ reason[1] = run /\ Recent(reason)
  /\ \A s \in stopped : s[1] = run => Recent(s)

\* What a live process shows of the runs before is what its last start has loaded.
PrevShown == live => \A m \in Before : IsTop(Before, m) => Shows(prevRun, m, stopped)

\* A later line of the run leaves the stop in sight, or pushes it out.
LEMMA SeenAppend ==
  ASSUME LogData, NEW e \in Events, NEW s \in Events, SeenIn(entries, s),
         e[1] = s[1], e[2] > s[2]
  PROVE  SeenIn(Appended(e), s)
<1> DEFINE new == Appended(e)
           full == Len(entries) = Keep
<1>1. /\ Len(entries) \in Nat /\ Len(entries) <= Keep /\ Keep \in Nat /\ Keep >= 1
  BY LogAssumption DEF LogData
<1>2. /\ Len(new) = IF full THEN Keep ELSE Len(entries) + 1
      /\ new[Len(new)] = e
      /\ \A k \in 1 .. Len(new) - 1 : new[k] = entries[IF full THEN k + 1 ELSE k]
  BY AppendedFacts
<1>3. PICK i \in 0 .. Len(entries) :
        /\ IF i = 0 THEN Len(entries) = Keep ELSE entries[i] = s
        /\ \A j \in i + 1 .. Len(entries) : entries[j][1] = s[1] /\ entries[j][2] > s[2]
  BY DEF SeenIn
<1> HIDE DEF new
<1>4. CASE full /\ i > 0
  <2>1. i - 1 \in 0 .. Len(new) /\ (i - 1 = 0 => Len(new) = Keep)
    BY <1>1, <1>2, <1>4
  <2>2. i - 1 # 0 => new[i - 1] = s
    <3>1. i - 1 # 0 => i - 1 \in 1 .. Len(new) - 1 /\ (i - 1) + 1 = i
      BY <1>1, <1>2, <1>4
    <3> QED BY <1>2, <1>3, <1>4, <3>1
  <2>3. ASSUME NEW j \in (i - 1) + 1 .. Len(new) PROVE new[j][1] = s[1] /\ new[j][2] > s[2]
    <3>1. CASE j = Len(new)
      BY <1>2, <3>1
    <3>2. CASE j # Len(new)
      <4>1. j \in 1 .. Len(new) - 1 /\ j + 1 \in i + 1 .. Len(entries)
        BY <1>1, <1>2, <1>4, <3>2
      <4> QED BY <1>2, <1>3, <1>4, <4>1
    <3> QED BY <3>1, <3>2
  <2> QED BY <2>1, <2>2, <2>3 DEF SeenIn, new
<1>5. CASE full /\ i = 0
  <2>1. 0 \in 0 .. Len(new) /\ Len(new) = Keep
    BY <1>1, <1>2, <1>5
  <2>2. ASSUME NEW j \in 0 + 1 .. Len(new) PROVE new[j][1] = s[1] /\ new[j][2] > s[2]
    <3>1. CASE j = Len(new)
      BY <1>2, <3>1
    <3>2. CASE j # Len(new)
      <4>1. j \in 1 .. Len(new) - 1 /\ j + 1 \in i + 1 .. Len(entries)
        BY <1>1, <1>2, <1>5, <3>2
      <4> QED BY <1>2, <1>3, <1>5, <4>1
    <3> QED BY <3>1, <3>2
  <2> QED BY <2>1, <2>2 DEF SeenIn, new
<1>6. CASE ~full
  <2>1. i # 0 /\ i \in 0 .. Len(new) /\ i \in 1 .. Len(new) - 1
    BY <1>1, <1>2, <1>3, <1>6
  <2>2. new[i] = s
    BY <1>2, <1>3, <1>6, <2>1
  <2>3. ASSUME NEW j \in i + 1 .. Len(new) PROVE new[j][1] = s[1] /\ new[j][2] > s[2]
    <3>1. CASE j = Len(new)
      BY <1>2, <3>1
    <3>2. CASE j # Len(new)
      <4>1. j \in 1 .. Len(new) - 1 /\ j \in i + 1 .. Len(entries)
        BY <1>1, <1>2, <1>6, <3>2
      <4> QED BY <1>2, <1>3, <1>6, <4>1
    <3> QED BY <3>1, <3>2
  <2> QED BY <2>1, <2>2, <2>3 DEF SeenIn, new
<1> QED BY <1>3, <1>4, <1>5, <1>6

\* The last line of a journal that shows a stop is of that run.
LEMMA SeenLast ==
  ASSUME NEW es \in Seq(Events), NEW s \in Events, SeenIn(es, s)
  PROVE  Len(es) > 0 /\ es[Len(es)][1] = s[1]
<1>1. PICK i \in 0 .. Len(es) :
        /\ IF i = 0 THEN Len(es) = Keep ELSE es[i] = s
        /\ \A j \in i + 1 .. Len(es) : es[j][1] = s[1] /\ es[j][2] > s[2]
  BY DEF SeenIn
<1>2. Len(es) \in Nat /\ Keep \in Nat /\ Keep >= 1
  BY LogAssumption
<1>3. Len(es) > 0
  BY <1>1, <1>2
<1>4. CASE i = Len(es)
  BY <1>1, <1>2, <1>3, <1>4
<1>5. CASE i # Len(es)
  <2>1. Len(es) \in i + 1 .. Len(es)
    BY <1>2, <1>5
  <2> QED BY <1>1, <1>3, <2>1
<1> QED BY <1>4, <1>5

\* A flush by the current run makes it the one the file ends with.
LEMMA FlushShows ==
  ASSUME FileShown, LogData, run >= 1, run' = run,
         file' = entries', written' = written \cup {run},
         Len(entries') > 0, entries'[Len(entries')][1] = run,
         \A s \in stopped' : s[1] \in written \/ s[1] = run,
         \A s \in stopped' : s[1] = run => SeenIn(entries', s)
  PROVE  FileShown'
<1>1. written' \subseteq 1 .. run' /\ \A m \in written' : IsTop(written', m) => m = run
  <2>1. run \in Nat /\ run \in 1 .. run /\ \A m \in written : m \in 1 .. run
    BY DEF FileShown, LogData
  <2>2. \A m \in written' : m \in 1 .. run
    BY <2>1
  <2>3. ASSUME NEW m \in written', IsTop(written', m) PROVE m = run
    <3>1. run <= m /\ m \in 1 .. run
      BY <2>2, <2>3 DEF IsTop
    <3> QED BY <2>1, <3>1
  <2> QED BY <2>2, <2>3
<1>2. Shows(file', run, stopped')
  BY DEF Shows
<1>3. ASSUME NEW m \in written', IsTop(written', m) PROVE Shows(file', m, stopped')
  BY <1>1, <1>2, <1>3
<1>4. \A s \in stopped' : s[1] \in written'
  OBVIOUS
<1> QED BY <1>1, <1>3, <1>4 DEF FileShown

\* A line of the current run, whoever appends it, shows what was shown.
LEMMA AddShows ==
  ASSUME LogData, FileShown, StopKept, AddsLine, live
  PROVE  /\ FileShown'
         /\ \A s \in Events : s[1] = run /\ Recent(s) => s[2] <= count' /\ SeenIn(entries', s)
         /\ SeenIn(entries', NextLine)
<1>1. /\ NextLine \in Events /\ NextLine[1] = run /\ NextLine[2] = count + 1
      /\ run \in Nat /\ count \in Nat /\ run >= 1
  BY NextLineType DEF LogData, StopKept
<1>2. /\ entries' = Appended(NextLine) /\ count' = count + 1
      /\ UNCHANGED <<live, run, prevRun, stopped>>
      /\ \/ file' = entries' /\ written' = written \cup {run}
         \/ file' = file /\ written' = written
  BY DEF AddsLine
<1>3. ASSUME NEW s \in Events, s[1] = run, Recent(s)
      PROVE  SeenIn(entries', s) /\ s[2] <= count'
  <2>1. SeenIn(entries, s) /\ s[2] <= count /\ s[2] \in Nat
    BY <1>3 DEF Recent, Events
  <2>2. count + 1 > s[2] /\ s[2] <= count + 1
    BY <1>1, <2>1
  <2>3. SeenIn(Appended(NextLine), s)
    BY <1>1, <1>3, <2>1, <2>2, SeenAppend
  <2> QED BY <1>2, <2>2, <2>3
<1>4. /\ Len(entries') \in Nat /\ Len(entries') >= 1
      /\ entries'[Len(entries')] = NextLine
  <2>1. /\ Appended(NextLine) \in Seq(Events) /\ Len(Appended(NextLine)) >= 1
        /\ Appended(NextLine)[Len(Appended(NextLine))] = NextLine
    BY <1>1, AppendedFacts
  <2> QED BY <1>2, <2>1
<1>5. SeenIn(entries', NextLine)
  <2> DEFINE n == Len(entries')
  <2>1. n \in Nat /\ n >= 1 /\ entries'[n] = NextLine
    BY <1>4
  <2>2. n \in 0 .. n /\ n # 0 /\ n + 1 .. n = {}
    <3> HIDE DEF n
    <3> QED BY <2>1
  <2> QED BY <2>1, <2>2 DEF SeenIn
<1>6. CASE file' = entries' /\ written' = written \cup {run}
  <2>1. \A s \in stopped' : s[1] \in written \/ s[1] = run
    BY <1>2 DEF FileShown
  <2>2. \A s \in stopped' : s[1] = run => SeenIn(entries', s)
    BY <1>2, <1>3 DEF StopKept
  <2>3. Len(entries') > 0 /\ entries'[Len(entries')][1] = run /\ run' = run
    BY <1>1, <1>2, <1>4
  <2>4. FileShown'
    BY <1>1, <1>6, <2>1, <2>2, <2>3, FlushShows
  <2> QED BY <1>3, <1>5, <2>4
<1>7. CASE file' = file /\ written' = written
  <2>1. FileShown'
    BY <1>2, <1>7 DEF FileShown, IsTop
  <2> QED BY <1>3, <1>5, <2>1
<1> QED BY <1>2, <1>6, <1>7

\* The flush at the end of a stop puts it into the file.
LEMMA DoneShows ==
  ASSUME LogData, FileShown, StopKept, stopDone
  PROVE  FileShown' /\ StopKept'
<1>1. /\ tunnel' = "stopped" /\ stopped' = stopped \cup {reason}
      /\ file' = entries /\ written' = written \cup {run}
      /\ UNCHANGED <<live, run, entries, count>>
      /\ live /\ run \in Nat /\ run >= 1 /\ entries \in Seq(Events)
      /\ reason \in Events /\ reason[1] = run /\ Recent(reason)
  BY DEF stopDone, flushLocked, StopKept, LogData
<1>2. \A s \in stopped' : s[1] = run => Recent(s)
  BY <1>1 DEF StopKept
<1>3. Len(entries) > 0 /\ entries[Len(entries)][1] = run
  BY <1>1, SeenLast DEF Recent
<1>4. /\ \A s \in stopped' : s[1] \in written \/ s[1] = run
      /\ \A s \in stopped' : s[1] = run => SeenIn(entries, s)
  BY <1>1, <1>2 DEF FileShown, Recent
<1>5. FileShown'
  BY <1>1, <1>3, <1>4, FlushShows
<1>6. StopKept'
  BY <1>1, <1>2 DEF StopKept, Recent
<1> QED BY <1>5, <1>6

\* No other step writes the file, or adds to it what it does not show.
LEMMA ShownStep ==
  ASSUME LogData, FileShown, StopKept, LogStep
  PROVE  FileShown' /\ StopKept'
<1>1. CASE UNCHANGED log
  BY <1>1 DEF log, FileShown, StopKept, Recent, IsTop
<1>2. CASE startTunnel \/ settingsFailed
  <2>1. /\ UNCHANGED <<live, run, file, entries, count, stopped, written>>
        /\ tunnel' \in {"starting", "stopped"}
    BY <1>2 DEF startTunnel, settingsFailed
  <2>2. FileShown'
    BY <2>1 DEF FileShown
  <2> QED BY <2>1, <2>2 DEF StopKept, Recent
<1>3. CASE settingsDone
  <2>1. /\ run' = run + 1 /\ live' /\ tunnel' = "worker" /\ run \in Nat
        /\ UNCHANGED <<file, stopped, written>>
    BY <1>3 DEF settingsDone, LogData
  <2>2. written \subseteq 1 .. run'
    BY <2>1 DEF FileShown
  <2>3. FileShown'
    BY <2>1, <2>2 DEF FileShown
  <2>4. \A s \in stopped' : s[1] # run'
    BY <2>1 DEF FileShown
  <2> QED BY <2>1, <2>3, <2>4 DEF StopKept
<1>4. CASE announce \/ postEvent \/ ioTimer
  <2>1. AddsLine /\ live
    <3>1. live
      BY <1>4 DEF announce, postEvent, ioTimer, StopKept
    <3> QED BY <1>4, <3>1, Adds
  <2>2. /\ FileShown' /\ UNCHANGED <<live, run, stopped>>
        /\ \A s \in Events : s[1] = run /\ Recent(s) => s[2] <= count' /\ SeenIn(entries', s)
    BY <2>1, AddShows DEF AddsLine
  <2>3. /\ tunnel' = "stopping" => tunnel = "stopping"
        /\ reason' = reason
    BY <1>4 DEF announce, postEvent, ioTimer
  <2>4. ASSUME NEW s \in Events, s[1] = run, Recent(s) PROVE s[2] <= count' /\ SeenIn(entries', s)
    BY <2>2, <2>4
  <2>5. \A s \in stopped' : s[1] = run' => s[2] <= count' /\ SeenIn(entries', s)
    BY <2>2 DEF StopKept
  <2>6. tunnel' = "stopping" => /\ reason' \in Events /\ reason'[1] = run'
                                /\ reason'[2] <= count' /\ SeenIn(entries', reason')
    BY <2>2, <2>3 DEF StopKept
  <2>7. /\ stopped' \subseteq Events /\ live' /\ run' >= 1
        /\ \A s \in stopped' : s[1] = run' => Recent(s)'
        /\ tunnel' = "stopping" => reason' \in Events /\ reason'[1] = run' /\ Recent(reason)'
    BY <2>1, <2>2, <2>5, <2>6 DEF StopKept, Recent
  <2> QED BY <2>2, <2>7 DEF StopKept
<1>5. CASE stopTunnel
  <2>1. AddsLine /\ live /\ tunnel' = "stopping" /\ reason' = NextLine
    BY <1>5, Adds DEF stopTunnel, StopKept
  <2>2. /\ FileShown' /\ SeenIn(entries', NextLine) /\ UNCHANGED <<live, run, stopped>>
        /\ \A s \in Events : s[1] = run /\ Recent(s) => s[2] <= count' /\ SeenIn(entries', s)
        /\ count' = count + 1
    BY <2>1, AddShows DEF AddsLine
  <2>3. reason' \in Events /\ reason'[1] = run' /\ reason'[2] <= count'
    BY <2>1, <2>2, NextLineType DEF LogData
  <2>4. Recent(reason)'
    BY <2>1, <2>2, <2>3 DEF Recent
  <2>5. \A s \in stopped' : s[1] = run' => Recent(s)'
    BY <2>2 DEF StopKept, Recent
  <2> QED BY <2>1, <2>2, <2>3, <2>4, <2>5 DEF StopKept
<1>6. CASE ProcessEnds
  <2>1. UNCHANGED <<run, file, count, stopped, written>> /\ ~live' /\ tunnel' = "off"
    BY <1>6 DEF ProcessEnds
  <2>2. FileShown'
    BY <2>1 DEF FileShown
  <2> QED BY <2>1, <2>2 DEF StopKept, Recent
<1> QED BY <1>1, <1>2, <1>3, <1>4, <1>5, <1>6, DoneShows DEF LogStep

\* What was loaded at the start stays, and no run before this one writes any more.
LEMMA PrevStep ==
  ASSUME LogData, FileShown, StopKept, PrevShown, LogStep
  PROVE  PrevShown'
<1>1. CASE settingsDone
  <2>1. /\ prevRun' = file /\ run' = run + 1
        /\ UNCHANGED <<stopped, written>>
    BY <1>1 DEF settingsDone, loadPrevious
  <2>2. written \subseteq 1 .. run /\ run \in Nat
    BY DEF FileShown, LogData
  <2>3. Before' = written
    <3>1. \A r \in written : r < run + 1
      BY <2>2
    <3> QED BY <2>1, <3>1 DEF Before
  <2> QED BY <2>1, <2>3 DEF FileShown, PrevShown
<1>2. ASSUME UNCHANGED <<run, prevRun>>, live' => live,
             written' = written \/ written' = written \cup {run},
             \A s \in stopped' : s \in stopped \/ s[1] = run
      PROVE  PrevShown'
  <2>1. ASSUME NEW r PROVE r \in Before' <=> r \in Before
    BY <1>2 DEF Before, LogData
  <2>2. Before' = Before
    BY <2>1
  <2>3. ASSUME live', NEW m \in Before, IsTop(Before, m) PROVE Shows(prevRun', m, stopped')
    <3>1. Shows(prevRun, m, stopped) /\ m # run
      BY <1>2, <2>3 DEF PrevShown, Before, LogData
    <3> QED BY <1>2, <3>1 DEF Shows
  <2> QED BY <2>2, <2>3 DEF PrevShown
<1>3. CASE UNCHANGED log \/ startTunnel \/ settingsFailed
  BY <1>2, <1>3 DEF log, startTunnel, settingsFailed
<1>4. CASE announce \/ postEvent \/ ioTimer \/ stopTunnel
  <2>1. AddsLine
    BY <1>4, Adds
  <2> QED BY <1>2, <2>1 DEF AddsLine
<1>5. CASE stopDone
  <2>1. /\ UNCHANGED <<live, run, prevRun>> /\ written' = written \cup {run}
        /\ stopped' = stopped \cup {reason} /\ reason[1] = run
    BY <1>5 DEF stopDone, flushLocked, StopKept
  <2> QED BY <1>2, <2>1
<1>6. CASE ProcessEnds
  BY <1>6 DEF ProcessEnds, PrevShown
<1> QED BY <1>1, <1>3, <1>4, <1>5, <1>6 DEF LogStep

\* A set of runs that is not empty has a last one.
LEMMA TopExists ==
  ASSUME NEW n \in Nat, NEW S \in SUBSET (1 .. n), S # {}
  PROVE  IsTop(S, Max(S))
<1>1. S \in SUBSET (0 .. n)
  OBVIOUS
<1>2. Max(S) \in S /\ \A x \in S : x <= Max(S)
  BY <1>1, MaxExists
<1> QED BY <1>2 DEF IsTop

\* EventLog.swift:5: the journal a run shows of the one before ends with the last
\* run that wrote the file, and holds the reason if that run was stopped in order,
\* unless that many lines followed it that it was pushed out: over crashes, failed
\* starts and starts in the same process, whatever the sizes.
THEOREM PreviousRunIsShown == Spec => []PreviousShown
<1> DEFINE IInv == LogData /\ FileShown /\ StopKept /\ PrevShown
<1>1. Init => IInv
  <2> SUFFICES ASSUME Init PROVE IInv
    OBVIOUS
  <2>1. LogInit
    BY DEF Init
  <2>2. LogData
    BY <2>1, LogAssumption DEF LogInit, LogData
  <2>3. FileShown /\ PrevShown
    BY <2>1 DEF LogInit, FileShown, PrevShown, Before
  <2>4. StopKept
    BY <2>1, LogAssumption DEF LogInit, StopKept
  <2> QED BY <2>2, <2>3, <2>4
<1>2. IInv /\ [Next]_vars => IInv'
  BY StepsOfLog, LogDataStep, ShownStep, PrevStep
<1>3. IInv => PreviousShown
  <2> SUFFICES ASSUME IInv, live, Before # {}
               PROVE  /\ prevRun # <<>> /\ Last(prevRun)[1] = Max(Before)
                      /\ \A s \in stopped : s[1] = Max(Before) =>
                           Contains(prevRun, s) \/ PushedOut(prevRun, s)
    BY DEF PreviousShown, Before
  <2>1. run \in Nat /\ Before \in SUBSET (1 .. run) /\ prevRun \in Seq(Events)
    BY DEF LogData, FileShown, Before
  <2>2. IsTop(Before, Max(Before))
    BY <2>1, TopExists
  <2>3. Shows(prevRun, Max(Before), stopped)
    BY <2>2 DEF PrevShown, IsTop
  <2>4. prevRun # <<>> /\ Last(prevRun)[1] = Max(Before)
    BY <2>3 DEF Shows, Last
  <2>5. ASSUME NEW s \in stopped, s[1] = Max(Before)
        PROVE  Contains(prevRun, s) \/ PushedOut(prevRun, s)
    <3>1. PICK i \in 0 .. Len(prevRun) :
            /\ IF i = 0 THEN Len(prevRun) = Keep ELSE prevRun[i] = s
            /\ \A j \in i + 1 .. Len(prevRun) : prevRun[j][1] = s[1] /\ prevRun[j][2] > s[2]
      BY <2>3, <2>5 DEF Shows, SeenIn
    <3>2. CASE i = 0
      <4>1. DOMAIN prevRun = i + 1 .. Len(prevRun)
        BY <2>1, <3>2
      <4> QED BY <3>1, <3>2, <4>1 DEF PushedOut
    <3>3. CASE i # 0
      <4>1. i \in 1 .. Len(prevRun)
        BY <2>1, <3>3
      <4> QED BY <3>1, <3>3, <4>1 DEF Contains
    <3> QED BY <3>2, <3>3
  <2> QED BY <2>4, <2>5
<1> QED BY <1>1, <1>2, <1>3, PTL DEF Spec

-----------------------------------------------------------------------------
(* The button and the watchdog *)

\* What a step can do to the app and the VPN: the VPN leaves a state for another
\* one than "connecting", or does what it was asked for, or the manager runs.
VpnMoves == \E v : v # "connecting" /\ Becomes(v)

VpnSwitches ==
  /\ asked # 0 /\ Switches(asked)
  /\ UNCHANGED <<saved, manager, status, errorMessage, reloading, toggle, target, watchdog, restarted>>

AppStep == UNCHANGED app \/ Manager \/ VpnMoves \/ VpnSwitches

\* Every step of app and extension is one of those for the app.
LEMMA StepsOfApp == [Next]_vars => AppStep
<1> SUFFICES ASSUME [Next]_vars PROVE AppStep
  OBVIOUS
<1>1. CASE UNCHANGED vars
  BY <1>1 DEF vars, AppStep
<1>2. CASE Manager \/ ((postEvent \/ ioTimer) /\ UNCHANGED app) \/ Launches \/ Comes \/ Announces
  BY <1>2 DEF AppStep, Launches, Comes, Announces
<1>3. CASE SystemSwitches
  BY <1>3 DEF SystemSwitches, AppStep, VpnMoves, VpnSwitches
<1>4. CASE Started
  <2> DEFINE v == IF vpn = "connecting" THEN "connected" ELSE vpn
  <2>1. v # "connecting" /\ Becomes(v)
    BY <1>4 DEF Started
  <2> HIDE DEF v
  <2> QED BY <2>1 DEF AppStep, VpnMoves
<1>5. CASE Failed \/ Stops \/ Stopped \/ StopsEarly \/ Dies
  BY <1>5 DEF Failed, Stops, Stopped, StopsEarly, Dies, AppStep, VpnMoves
<1> QED BY <1>1, <1>2, <1>3, <1>4, <1>5 DEF Next

InUse == (saved \cup {target[t] : t \in Tap}) \ {0}

ManagerTypes ==
  /\ saved \subseteq Config
  /\ target \in [Tap -> 0 .. Configs]
  /\ DOMAIN toggle = Tap /\ DOMAIN watchdog = Tap
  /\ DOMAIN moved = Tap /\ DOMAIN restarted = Tap

\* Whatever the app and the system hold is a configuration in use; before there
\* is one, nothing but the first.
Used ==
  /\ InUse # {} => 1 \in InUse
  /\ manager \in {0} \cup InUse
  /\ asked \in {0, -1} \cup InUse
  /\ owner \in {1} \cup InUse
  /\ notes \subseteq {1} \cup InUse
  /\ \A t \in Tap : toggle[t] = "no" <=> target[t] = 0

\* The status is the one of the known configuration or, before it is known, of the first.
StatusShown ==
  Single /\ notes = {} =>
    \/ status = ConnStatus(manager, vpn, owner)
    \/ manager = 0 /\ status = ConnStatus(1, vpn, owner)

\* The numbers in use are configurations.
LEMMA InUseType ==
  ASSUME ManagerTypes
  PROVE  /\ InUse \subseteq Config /\ 0 \notin InUse /\ saved \subseteq InUse
         /\ \A t \in Tap : target[t] # 0 => target[t] \in InUse
         /\ Unused = Config \ InUse /\ 1 \in Config
<1>1. /\ \A c \in Config : c \in Nat /\ c >= 1 /\ c # 0
      /\ \A c \in 0 .. Configs : c # 0 => c \in Config
      /\ 1 \in Config
  BY ManagerAssumption DEF Config
<1>2. \A t \in Tap : target[t] # 0 => target[t] \in Config
  BY <1>1 DEF ManagerTypes
<1>3. InUse \subseteq Config /\ 0 \notin InUse
  <2>1. ASSUME NEW c \in InUse PROVE c \in Config
    <3>1. c # 0 /\ (c \in saved \/ \E t \in Tap : c = target[t])
      BY DEF InUse
    <3> QED BY <1>2, <3>1 DEF ManagerTypes
  <2> QED BY <2>1 DEF InUse
<1>4. saved \subseteq InUse /\ \A t \in Tap : target[t] # 0 => target[t] \in InUse
  <2>1. \A c \in saved : c \in Config
    BY DEF ManagerTypes
  <2>2. \A c \in saved : c # 0
    BY <1>1, <2>1
  <2> QED BY <2>2 DEF InUse
<1>5. Unused = Config \ InUse
  <2>1. \A c \in Config : c # 0
    BY <1>1
  <2> QED BY <2>1 DEF InUse, Unused
<1> QED BY <1>1, <1>3, <1>4, <1>5

\* The fresh configuration of a first toggle is the first one.
LEMMA FreshConfig ==
  ASSUME ManagerTypes, Unused # {}
  PROVE  Min(Unused) \in Config /\ (InUse = {} => Min(Unused) = 1)
<1>1. Unused \in SUBSET Nat /\ Unused \subseteq Config
  BY ManagerAssumption DEF Unused, Config
<1>2. Min(Unused) \in Unused /\ \A x \in Unused : Min(Unused) <= x
  BY <1>1, MinExists
<1>3. InUse = {} => 1 \in Unused
  BY InUseType
<1>4. Min(Unused) \in Config
  BY <1>1, <1>2
<1>5. \A c \in Config : c \in Nat /\ (c <= 1 => c = 1)
  BY ManagerAssumption DEF Config
<1> QED BY <1>2, <1>3, <1>4, <1>5

\* What is in use stays in use.
LEMMA InUseStays ==
  ASSUME ManagerTypes, saved \subseteq saved', \A t \in Tap : target[t] # 0 => target'[t] = target[t]
  PROVE  InUse \subseteq InUse'
<1>1. ASSUME NEW c \in InUse PROVE c \in InUse'
  <2>1. c # 0 /\ (c \in saved \/ \E t \in Tap : c = target[t])
    BY DEF InUse
  <2>2. c \in saved' \/ \E t \in Tap : c = target'[t]
    BY <2>1
  <2> QED BY <2>1, <2>2 DEF InUse
<1> QED BY <1>1

\* What is the only one in use has been the only one before.
LEMMA SingleBefore ==
  ASSUME InUse \subseteq InUse', Single'
  PROVE  Single
BY DEF Single, InUse

\* With a single configuration there is only the first.
LEMMA SingleIsFirst ==
  ASSUME Used, Single
  PROVE  InUse \subseteq {1} /\ manager \in {0, 1} /\ owner = 1 /\ notes \subseteq {1}
<1>1. \A c, d \in InUse : c = d
  BY DEF Single, InUse
<1>2. InUse \subseteq {1}
  BY <1>1 DEF Used
<1> QED BY <1>2 DEF Used

\* A step that takes nothing new into use.
LEMMA UsedKept ==
  ASSUME Used, ManagerTypes, saved \subseteq saved', saved' \subseteq InUse, target' = target,
         manager' \in {0} \cup InUse, asked' \in {0, -1} \cup InUse, owner' \in {1} \cup InUse,
         notes' \subseteq {1} \cup InUse,
         \A t \in Tap : toggle'[t] = "no" <=> toggle[t] = "no"
  PROVE  Used' /\ InUse' = InUse
<1>1. InUse \subseteq InUse'
  BY InUseStays
<1>2. InUse' \subseteq InUse
  BY InUseType DEF InUse
<1>3. InUse' = InUse
  BY <1>1, <1>2
<1>4. \A t \in Tap : toggle'[t] = "no" <=> target'[t] = 0
  BY DEF Used
<1> QED BY <1>3, <1>4 DEF Used

\* The types of what the manager holds.
LEMMA TypesStep ==
  ASSUME ManagerTypes, Used, AppStep
  PROVE  ManagerTypes'
<1> USE DEF ManagerTypes
<1>1. CASE UNCHANGED app
  BY <1>1 DEF app
<1>2. CASE VpnMoves \/ VpnSwitches
  BY <1>2 DEF VpnMoves, VpnSwitches, Becomes, Switches
<1>3. CASE reload \/ \E c \in Config : statusDidChange(c)
  BY <1>3 DEF reload, statusDidChange
<1>4. ASSUME NEW t \in Tap, toggle_begins(t) PROVE ManagerTypes'
  <2> DEFINE c == IF manager # 0 THEN manager ELSE Min(Unused)
  <2>1. c \in Config
    <3>1. manager # 0 => manager \in Config
      BY InUseType DEF Used
    <3>2. manager = 0 => Unused # {}
      BY <1>4 DEF toggle_begins
    <3> QED BY <3>1, <3>2, FreshConfig
  <2>2. c \in 0 .. Configs
    BY <2>1, ManagerAssumption DEF Config
  <2> HIDE DEF c
  <2>3. target' = [target EXCEPT ![t] = c]
    BY <1>4 DEF toggle_begins, c
  <2>4. target' \in [Tap -> 0 .. Configs]
    BY <2>2, <2>3
  <2> QED BY <1>4, <2>4 DEF toggle_begins
<1>5. ASSUME NEW t \in Tap, toggle_saved(t) PROVE ManagerTypes'
  <2>1. target[t] \in Config
    <3>1. target[t] # 0
      BY <1>5 DEF toggle_saved, Used
    <3> QED BY <3>1, InUseType
  <2> QED BY <1>5, <2>1 DEF toggle_saved
<1>6. ASSUME NEW t \in Tap, toggle_enabled(t) \/ toggle_throws(t) \/ watchdogFires(t)
      PROVE  ManagerTypes'
  BY <1>6 DEF toggle_enabled, toggle_throws, watchdogFires
<1>7. ASSUME NEW t \in Tap, toggle_switches(t) PROVE ManagerTypes'
  <2>1. /\ UNCHANGED <<saved, target>>
        /\ DOMAIN toggle' = Tap /\ DOMAIN watchdog' = Tap /\ DOMAIN restarted' = Tap
    BY <1>7 DEF toggle_switches
  <2>2. DOMAIN moved' = Tap
    BY <1>7 DEF toggle_switches, Asks, Switches
  <2> QED BY <2>1, <2>2
<1> QED BY <1>1, <1>2, <1>3, <1>4, <1>5, <1>6, <1>7 DEF AppStep, Manager

\* Only toggle() takes a configuration into use; the system works with those it was given.
LEMMA UsedStep ==
  ASSUME ManagerTypes, Used, AppStep
  PROVE  Used' /\ InUse \subseteq InUse'
<1>1. CASE UNCHANGED app
  <2>1. /\ UNCHANGED <<saved, target, manager, asked, owner, notes, toggle>>
    BY <1>1 DEF app
  <2>2. saved \subseteq InUse
    BY InUseType
  <2> QED BY <2>1, <2>2 DEF Used, InUse
<1>2. CASE VpnMoves
  <2>1. /\ UNCHANGED <<saved, target, manager, asked, owner, toggle>>
        /\ notes' \subseteq notes \cup {owner}
    BY <1>2 DEF VpnMoves, Becomes
  <2> QED BY <2>1, InUseType, UsedKept DEF Used
<1>3. CASE VpnSwitches
  <2>1. /\ UNCHANGED <<saved, target, manager, toggle>>
        /\ asked' = 0
        /\ owner' = owner \/ (asked \notin {0, -1} /\ owner' = asked)
        /\ notes' = notes \cup {owner, owner'}
    BY <1>3 DEF VpnSwitches, Switches
  <2>2. owner' \in {1} \cup InUse /\ notes' \subseteq {1} \cup InUse
    BY <2>1 DEF Used
  <2> QED BY <2>1, <2>2, InUseType, UsedKept DEF Used
<1>4. CASE reload
  <2>1. /\ UNCHANGED <<saved, target, asked, owner, notes, toggle>>
        /\ manager' = 0 \/ (saved # {} /\ manager' = Min(saved))
    BY <1>4 DEF reload
  <2>2. saved \in SUBSET Nat
    BY ManagerAssumption DEF ManagerTypes, Config
  <2>3. saved # {} => Min(saved) \in InUse
    BY <2>2, MinExists, InUseType
  <2> QED BY <2>1, <2>3, InUseType, UsedKept DEF Used
<1>5. ASSUME NEW c \in Config, statusDidChange(c) PROVE Used' /\ InUse \subseteq InUse'
  <2>1. /\ UNCHANGED <<saved, target, manager, asked, owner, toggle>>
        /\ notes' \subseteq notes
    BY <1>5 DEF statusDidChange
  <2> QED BY <2>1, InUseType, UsedKept DEF Used
<1>6. ASSUME NEW t \in Tap, toggle_begins(t) PROVE Used' /\ InUse \subseteq InUse'
  <2> DEFINE c == IF manager # 0 THEN manager ELSE Min(Unused)
  <2>1. c \in Config /\ c # 0 /\ (InUse = {} => c = 1)
    <3>1. manager # 0 => manager \in Config /\ InUse # {}
      BY InUseType DEF Used
    <3>2. manager = 0 => Unused # {}
      BY <1>6 DEF toggle_begins
    <3>3. \A x \in Config : x # 0
      BY ManagerAssumption DEF Config
    <3> QED BY <3>1, <3>2, <3>3, FreshConfig
  <2> HIDE DEF c
  <2>2. /\ target' = [target EXCEPT ![t] = c] /\ toggle' = [toggle EXCEPT ![t] = "saving"]
        /\ UNCHANGED <<saved, manager, asked, owner, notes>> /\ target[t] = 0
    BY <1>6 DEF toggle_begins, c, Used
  <2>3. /\ DOMAIN target = Tap /\ DOMAIN toggle = Tap
        /\ \A u \in Tap : u # t => target'[u] = target[u] /\ toggle'[u] = toggle[u]
        /\ target'[t] = c /\ toggle'[t] = "saving"
    BY <2>2 DEF ManagerTypes
  <2>4. InUse \subseteq InUse' /\ c \in InUse'
    BY <2>1, <2>2, <2>3, InUseStays DEF InUse
  <2>5. 1 \in InUse'
    BY <2>1, <2>4 DEF Used
  <2>6. \A u \in Tap : toggle'[u] = "no" <=> target'[u] = 0
    BY <2>1, <2>3 DEF Used
  <2> QED BY <2>2, <2>4, <2>5, <2>6 DEF Used
<1>7. ASSUME NEW t \in Tap, toggle_saved(t) PROVE Used' /\ InUse \subseteq InUse'
  <2>1. /\ UNCHANGED <<target, manager, asked, owner, notes>>
        /\ saved' = saved \cup {target[t]} /\ toggle[t] = "saving"
    BY <1>7 DEF toggle_saved
  <2>2. \A u \in Tap : toggle'[u] = "no" <=> toggle[u] = "no"
    BY <1>7 DEF toggle_saved, ManagerTypes
  <2>3. saved' \subseteq InUse
    BY <2>1, InUseType DEF Used
  <2> QED BY <2>1, <2>2, <2>3, UsedKept DEF Used
<1>8. ASSUME NEW t \in Tap, toggle_enabled(t) \/ toggle_throws(t) \/ watchdogFires(t)
      PROVE  Used' /\ InUse \subseteq InUse'
  <2>1. /\ UNCHANGED <<saved, target, asked, owner, notes>>
        /\ manager' = manager \/ (manager' = target[t] /\ toggle[t] = "loading")
    BY <1>8 DEF toggle_enabled, toggle_throws, watchdogFires
  <2>2. \A u \in Tap : toggle'[u] = "no" <=> toggle[u] = "no"
    BY <1>8 DEF toggle_enabled, toggle_throws, watchdogFires, ManagerTypes
  <2>3. manager' \in {0} \cup InUse
    BY <2>1, InUseType DEF Used
  <2> QED BY <2>1, <2>2, <2>3, InUseType, UsedKept DEF Used
<1>9. ASSUME NEW t \in Tap, toggle_switches(t) PROVE Used' /\ InUse \subseteq InUse'
  <2>1. target[t] \in InUse
    BY <1>9, InUseType DEF toggle_switches, Used
  <2>2. UNCHANGED <<saved, target>> /\ manager' = target[t]
    BY <1>9 DEF toggle_switches
  <2>3. \A u \in Tap : toggle'[u] = "no" <=> toggle[u] = "no"
    BY <1>9 DEF toggle_switches, ManagerTypes
  <2>4. PICK what \in {-1, target[t]} : Asks(what) \/ Switches(what)
    BY <1>9 DEF toggle_switches
  <2>5. asked' \in {0, what} /\ owner' \in {owner, target[t]} /\ notes' \subseteq notes \cup {owner, target[t]}
    BY <2>4 DEF Asks, Switches
  <2>6. /\ asked' \in {0, -1} \cup InUse /\ owner' \in {1} \cup InUse
        /\ notes' \subseteq {1} \cup InUse
    BY <2>1, <2>4, <2>5 DEF Used
  <2> QED BY <2>1, <2>2, <2>3, <2>6, InUseType, UsedKept
<1> QED BY <1>1, <1>2, <1>3, <1>4, <1>5, <1>6, <1>7, <1>8, <1>9 DEF AppStep, Manager

\* Whoever changes the VPN leaves a notification; whoever takes the last one away,
\* or changes the known configuration, reads the status.
LEMMA StatusStep ==
  ASSUME ManagerTypes, Used, StatusShown, AppStep
  PROVE  StatusShown'
<1>1. Used' /\ InUse \subseteq InUse'
  BY UsedStep
<1> SUFFICES ASSUME Single', notes' = {}
             PROVE  \/ status' = ConnStatus(manager, vpn, owner)'
                    \/ manager' = 0 /\ status' = ConnStatus(1, vpn, owner)'
  BY DEF StatusShown
<1>2. Single
  BY <1>1, SingleBefore
<1>3. ASSUME UNCHANGED <<manager, vpn, owner, status, notes>>
      PROVE  \/ status' = ConnStatus(manager, vpn, owner)'
             \/ manager' = 0 /\ status' = ConnStatus(1, vpn, owner)'
  BY <1>2, <1>3 DEF StatusShown
<1>4. CASE UNCHANGED app
  BY <1>3, <1>4 DEF app
<1>5. CASE VpnMoves
  <2>1. PICK v : Becomes(v)
    BY <1>5 DEF VpnMoves
  <2>2. CASE v = vpn
    BY <1>3, <2>1, <2>2 DEF Becomes
  <2>3. CASE v # vpn
    BY <2>1, <2>3 DEF Becomes
  <2> QED BY <2>2, <2>3
<1>6. CASE VpnSwitches
  <2>1. owner \in notes'
    BY <1>6 DEF VpnSwitches, Switches
  <2> QED BY <2>1
<1>7. CASE reload
  BY <1>7 DEF reload
<1>8. ASSUME NEW c \in Config, statusDidChange(c)
      PROVE  \/ status' = ConnStatus(manager, vpn, owner)'
             \/ manager' = 0 /\ status' = ConnStatus(1, vpn, owner)'
  <2>1. c \in notes /\ status' = ConnStatus(c, vpn, owner) /\ UNCHANGED <<manager, vpn, owner>>
    BY <1>8 DEF statusDidChange
  <2>2. c = 1 /\ manager \in {0, 1}
    BY <1>2, <2>1, SingleIsFirst
  <2> QED BY <2>1, <2>2
<1>9. ASSUME NEW t \in Tap, toggle_begins(t) \/ toggle_saved(t) \/ toggle_enabled(t)
      PROVE  UNCHANGED <<manager, vpn, owner, status, notes>>
  BY <1>9 DEF toggle_begins, toggle_saved, toggle_enabled
<1>10. ASSUME NEW t \in Tap, toggle_switches(t) \/ toggle_throws(t)
       PROVE  status' = ConnStatus(manager, vpn, owner)'
  <2>1. CASE toggle_switches(t)
    BY <2>1 DEF toggle_switches
  <2>2. CASE toggle_throws(t)
    BY <2>2 DEF toggle_throws
  <2> QED BY <1>10, <2>1, <2>2
<1>11. ASSUME NEW t \in Tap, watchdogFires(t)
       PROVE  \/ UNCHANGED <<manager, vpn, owner, status, notes>>
              \/ status' = ConnStatus(manager, vpn, owner)'
  BY <1>11 DEF watchdogFires
<1> QED BY <1>3, <1>4, <1>5, <1>6, <1>7, <1>8, <1>9, <1>10, <1>11 DEF AppStep, Manager

\* The watchdog of the last start: nothing else has been asked to start since, so
\* the VPN does not come back to "connecting" once it has left it.
Watched(t) ==
  /\ toggle[t] # "done" => watchdog[t] = "off" /\ ~moved[t] /\ ~restarted[t]
  /\ watchdog[t] = "on" /\ ~restarted[t] => asked \in {0, -1} /\ (moved[t] => vpn # "connecting")

AllWatched == \A t \in Tap : Watched(t)

\* The toggle that starts the VPN sets its own watchdog, if at all, when the VPN
\* is connecting; for the watchdogs before, it is another start.
LEMMA WatchedSwitch ==
  ASSUME ManagerTypes, Used, AllWatched, NEW u \in Tap, toggle_switches(u), NEW t \in Tap
  PROVE  Watched(t)'
<1> DEFINE stops == Running(ConnStatus(target[u], vpn, owner))
           what == IF stops THEN -1 ELSE target[u]
<1>1. toggle[u] = "loading" /\ toggle' = [toggle EXCEPT ![u] = "done"]
  BY DEF toggle_switches
<1>2. watchdog[u] = "off" /\ ~moved[u] /\ ~restarted[u] /\ target[u] \in InUse
  BY <1>1, InUseType DEF AllWatched, Watched, Used
<1>3. Watched(t)
  BY DEF AllWatched
<1>4. target[u] \notin {0, -1}
  BY <1>2, InUseType, ManagerAssumption DEF Config
<1>5. toggle'[t] = IF t = u THEN "done" ELSE toggle[t]
  BY <1>1 DEF ManagerTypes
<1>6. CASE stops
  <2>1. watchdog' = watchdog /\ restarted' = restarted
    BY <1>6 DEF toggle_switches
  <2>2. Asks(-1) \/ Switches(-1)
    BY <1>6 DEF toggle_switches
  <2>3. CASE Asks(-1)
    BY <1>2, <1>3, <1>5, <2>1, <2>3 DEF Asks, Watched
  <2>4. CASE Switches(-1)
    <3>1. /\ asked' = 0 /\ moved' = [x \in Tap |-> moved[x] \/ watchdog[x] = "on"]
          /\ vpn' # "connecting"
      BY <2>4 DEF Switches
    <3>2. moved'[t] <=> moved[t] \/ watchdog[t] = "on"
      BY <3>1
    <3> QED BY <1>2, <1>3, <1>5, <2>1, <3>1, <3>2 DEF Watched
  <2> QED BY <2>2, <2>3, <2>4
<1>7. CASE ~stops
  <2>1. /\ watchdog' = [watchdog EXCEPT ![u] = IF status' = "connecting" THEN "on" ELSE "off"]
        /\ restarted' = [x \in Tap |-> restarted[x] \/ watchdog[x] = "on"]
        /\ status' = ConnStatus(target[u], vpn', owner')
        /\ Asks(target[u]) \/ Switches(target[u])
    BY <1>7 DEF toggle_switches
  <2>2. restarted'[t] <=> restarted[t] \/ watchdog[t] = "on"
    BY <2>1
  <2>3. watchdog'[t] = IF t = u THEN (IF status' = "connecting" THEN "on" ELSE "off") ELSE watchdog[t]
    BY <2>1 DEF ManagerTypes
  <2>4. moved'[t] => moved[t] \/ watchdog[t] = "on"
    <3>1. CASE Asks(target[u])
      BY <3>1 DEF Asks
    <3>2. CASE Switches(target[u])
      <4>1. moved' = [x \in Tap |-> moved[x] \/ watchdog[x] = "on"]
        BY <3>2 DEF Switches
      <4> QED BY <4>1
    <3> QED BY <2>1, <3>1, <3>2
  <2>5. CASE t # u
    BY <1>3, <1>5, <2>2, <2>3, <2>4, <2>5 DEF Watched
  <2>6. CASE t = u
    <3>1. ~moved'[u]
      BY <1>2, <2>4, <2>6
    <3>2. status' = "connecting" => asked' = 0
      <4>1. CASE Asks(target[u])
        BY <1>7, <2>1, <4>1 DEF Asks, Running
      <4>2. CASE Switches(target[u])
        BY <4>2 DEF Switches
      <4> QED BY <2>1, <4>1, <4>2
    <3> QED BY <1>5, <2>3, <2>6, <3>1, <3>2 DEF Watched
  <2> QED BY <2>5, <2>6
<1> QED BY <1>6, <1>7

\* No other step arms a watchdog, or makes the VPN connect while the last one is armed.
LEMMA WatchedStep ==
  ASSUME ManagerTypes, Used, AllWatched, AppStep
  PROVE  AllWatched'
<1> SUFFICES ASSUME NEW t \in Tap PROVE Watched(t)'
  BY DEF AllWatched
<1>1. Watched(t)
  BY DEF AllWatched
<1>2. ASSUME UNCHANGED <<toggle, watchdog, moved, restarted, asked, vpn>> PROVE Watched(t)'
  BY <1>1, <1>2 DEF Watched
<1>3. CASE UNCHANGED app \/ reload \/ \E c \in Config : statusDidChange(c)
  BY <1>2, <1>3 DEF app, reload, statusDidChange
<1>4. CASE VpnMoves
  <2>1. PICK v : v # "connecting" /\ Becomes(v)
    BY <1>4 DEF VpnMoves
  <2>2. /\ vpn' # "connecting" /\ UNCHANGED <<toggle, watchdog, restarted, asked>>
        /\ moved' = [x \in Tap |-> moved[x] \/ (watchdog[x] = "on" /\ v # vpn)]
    BY <2>1 DEF Becomes
  <2>3. moved'[t] => moved[t] \/ watchdog[t] = "on"
    BY <2>2
  <2> QED BY <1>1, <2>2, <2>3 DEF Watched
<1>5. CASE VpnSwitches
  <2>1. /\ asked # 0 /\ asked' = 0 /\ UNCHANGED <<toggle, watchdog, restarted>>
        /\ moved' = [x \in Tap |-> moved[x] \/ watchdog[x] = "on"]
        /\ asked = -1 => vpn' # "connecting"
    BY <1>5 DEF VpnSwitches, Switches
  <2>2. moved'[t] => moved[t] \/ watchdog[t] = "on"
    BY <2>1
  <2> QED BY <1>1, <2>1, <2>2 DEF Watched
<1>6. ASSUME NEW u \in Tap, toggle_begins(u) \/ toggle_saved(u) \/ toggle_enabled(u) \/ toggle_throws(u)
      PROVE  Watched(t)'
  <2>1. /\ UNCHANGED <<watchdog, moved, restarted, asked, vpn>>
        /\ toggle[u] # "done" /\ \E s \in {"saving", "loading", "enabling", "done"} :
                                    toggle' = [toggle EXCEPT ![u] = s]
    BY <1>6 DEF toggle_begins, toggle_saved, toggle_enabled, toggle_throws
  <2>2. toggle'[t] # "done" => toggle[t] # "done"
    BY <2>1 DEF ManagerTypes
  <2> QED BY <1>1, <2>1, <2>2 DEF Watched
<1>7. ASSUME NEW u \in Tap, watchdogFires(u) PROVE Watched(t)'
  <2>1. /\ UNCHANGED <<toggle, moved, restarted, asked, vpn>>
        /\ watchdog' = [watchdog EXCEPT ![u] = "off"]
    BY <1>7 DEF watchdogFires
  <2>2. watchdog'[t] = watchdog[t] \/ watchdog'[t] = "off"
    BY <2>1 DEF ManagerTypes
  <2> QED BY <1>1, <2>1, <2>2 DEF Watched
<1> QED BY <1>3, <1>4, <1>5, <1>6, <1>7, WatchedSwitch DEF AppStep, Manager

AppInv == ManagerTypes /\ Used /\ StatusShown /\ AllWatched

\* The app starts with the VPN off, and at most the first configuration saved.
LEMMA AppInit == Init => AppInv
<1> SUFFICES ASSUME Init PROVE AppInv
  OBVIOUS
<1>1. /\ saved \in {{}, {1}} /\ target = [t \in Tap |-> 0]
      /\ vpn = "disconnected" /\ owner = 1 /\ asked = 0 /\ manager = 0 /\ status = "invalid"
      /\ toggle = [t \in Tap |-> "no"] /\ watchdog = [t \in Tap |-> "off"]
      /\ moved = [t \in Tap |-> FALSE] /\ restarted = [t \in Tap |-> FALSE] /\ notes = {}
  BY DEF Init
<1>2. 1 \in Config /\ 0 \in 0 .. Configs
  BY ManagerAssumption DEF Config
<1>3. ManagerTypes
  BY <1>1, <1>2 DEF ManagerTypes
<1>4. InUse \subseteq {1}
  BY <1>1 DEF InUse
<1>5. Used
  BY <1>1, <1>4 DEF Used
<1>6. StatusShown
  BY <1>1 DEF StatusShown, ConnStatus
<1>7. AllWatched
  BY <1>1 DEF AllWatched, Watched
<1> QED BY <1>3, <1>5, <1>6, <1>7 DEF AppInv

\* Every step keeps it.
LEMMA AppInvStep == AppInv /\ [Next]_vars => AppInv'
BY StepsOfApp, TypesStep, UsedStep, StatusStep, WatchedStep DEF AppInv

\* TunnelManager.swift:222: the button is not wrong for good.  With one configuration,
\* the published status is the one of the VPN unless a notification is on its way,
\* for any number of taps, and whatever reload, watchdog and crashes come between.
THEOREM ButtonFollowsVpn == Spec => []StatusFollows
<1>1. AppInv => StatusFollows
  BY DEF AppInv, StatusShown, StatusFollows
<1> QED BY <1>1, AppInit, AppInvStep, PTL DEF Spec

\* TunnelManager.swift:358: the watchdog's complaint is about a start that has not
\* got anywhere, one whose end is still to be told, or one that another came after.
THEOREM WatchdogComplainsRightly == Spec => WatchdogRight
<1> DEFINE Right == errorMessage # "hung" /\ errorMessage' = "hung" /\ Single =>
                      \E t \in Tap : watchdog[t] = "on" /\ (~moved[t] \/ notes # {} \/ restarted[t])
<1>1. AppInv /\ [Next]_vars => [Right]_vars
  <2> SUFFICES ASSUME AppInv, [Next]_vars, errorMessage # "hung", errorMessage' = "hung", Single
               PROVE  \E t \in Tap : watchdog[t] = "on" /\ (~moved[t] \/ notes # {} \/ restarted[t])
    OBVIOUS
  <2>1. AppStep
    BY StepsOfApp
  <2>2. PICK t \in Tap : watchdogFires(t)
    <3>1. ~(UNCHANGED app \/ VpnMoves \/ VpnSwitches)
      BY DEF app, VpnMoves, VpnSwitches, Becomes
    <3>2. ~(reload \/ \E c \in Config : statusDidChange(c))
      BY DEF reload, statusDidChange
    <3>3. ASSUME NEW u \in Tap
          PROVE  ~(toggle_begins(u) \/ toggle_saved(u) \/ toggle_enabled(u) \/ toggle_switches(u)
                   \/ toggle_throws(u))
      BY DEF toggle_begins, toggle_saved, toggle_enabled, toggle_switches, toggle_throws
    <3> QED BY <2>1, <3>1, <3>2, <3>3 DEF AppStep, Manager
  <2>3. watchdog[t] = "on" /\ status = "connecting"
    BY <2>2 DEF watchdogFires
  <2>4. notes = {} => vpn = "connecting"
    BY <2>3 DEF AppInv, StatusShown, ConnStatus
  <2>5. Watched(t)
    BY DEF AppInv, AllWatched
  <2> QED BY <2>3, <2>4, <2>5 DEF Watched
<1> QED BY <1>1, AppInit, AppInvStep, PTL DEF Spec, WatchdogRight
============================================================================
