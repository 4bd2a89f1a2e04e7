----------------------------- MODULE WatchProofs -----------------------------
(***************************************************************************)
(* Proofs about Watch, for any number of workers, output files, edits and  *)
(* faults: what one refresh at a time gives the readers of the files.      *)
(***************************************************************************)
EXTENDS Watch, FiniteSetTheorems, TLAPS

\* What a refresh may rely on at each of its stages: until it imports, nothing
\* newer is stored; while it writes, what it writes is what is stored and the
\* files it has replaced show it.
RunInv(w) ==
    /\ stage[w] = "importing" => stored <= version[w] /\ version[w] <= source
    /\ stage[w] \in {"writing", "replacing"} =>
           /\ version[w] = stored
           /\ written[w] < FileCount
           /\ \A f \in Files : f <= written[w] => files[f] = stored

WatchInv ==
    /\ TypeOK
    /\ \A v, w \in Workers : v \in Busy /\ w \in Busy => v = w
    /\ StoppedIsQuiet
    /\ FilesDescend
    /\ strays <= crashes
    /\ crashes <= faults
    /\ stored <= source
    /\ \A w \in Workers : RunInv(w)

LEMMA WatchInvInit == Init => WatchInv
<1> SUFFICES ASSUME Init PROVE WatchInv
    OBVIOUS
<1>1. TypeOK
    BY WatchAssumption DEF Init, TypeOK, Stages
<1>2. Busy = {}
    BY DEF Init, Busy
<1>3. FilesDescend
    BY DEF Init, FilesDescend, Files
<1>4. \A w \in Workers : RunInv(w)
    BY DEF Init, RunInv
<1> QED BY <1>1, <1>2, <1>3, <1>4 DEF Init, WatchInv, StoppedIsQuiet

\* Steps that no refresh takes: edits and the comings and goings of processes.
LEMMA OutsideKeepsInv ==
    ASSUME WatchInv,
           EditSources \/ StartWatching \/ Interrupt \/ Stop \/ UNCHANGED vars
    PROVE  WatchInv'
<1>1. /\ UNCHANGED <<stage, version, written, stored, files, printed, strays,
                     crashes, faults>>
      /\ source' \in 1..MaxEdits /\ source <= source'
      /\ readable' \in BOOLEAN
      /\ process' \in {"down", "watching", "once", "stopping"}
      /\ process' = "down" => Busy = {}
    BY WatchAssumption DEF EditSources, StartWatching, Interrupt, Stop, vars,
       runVars, diskVars, faultVars, WatchInv, TypeOK, StoppedIsQuiet
<1>2. TypeOK'
    BY <1>1 DEF WatchInv, TypeOK
<1>3. Busy' = Busy
    BY <1>1 DEF Busy
<1>4. \A w \in Workers : RunInv(w)'
    BY <1>1 DEF WatchInv, TypeOK, RunInv
<1>5. stored' <= source'
    BY <1>1 DEF WatchInv, TypeOK
<1> QED BY <1>1, <1>2, <1>3, <1>4, <1>5 DEF WatchInv, StoppedIsQuiet, FilesDescend

\* A refresh starts only when none is under way.
LEMMA StartKeepsInv ==
    ASSUME WatchInv, NEW w \in Workers, RunOnce(w) \/ Fire(w)
    PROVE  WatchInv'
<1>1. /\ Busy = {}
      /\ process' \in {"once", "watching"}
      /\ stage' = [stage EXCEPT ![w] = "loading"]
      /\ UNCHANGED <<source, readable, version, written, diskVars, faultVars>>
    BY DEF RunOnce, Fire, GoTo, WatchInv, StoppedIsQuiet
<1>2. \A v \in Workers : v # w => stage'[v] = "idle"
    BY <1>1 DEF WatchInv, TypeOK, Busy
<1>3. TypeOK'
    BY <1>1 DEF WatchInv, TypeOK, Stages, diskVars, faultVars
<1>4. \A v \in Workers : RunInv(v)'
    BY <1>1, <1>2 DEF WatchInv, TypeOK, RunInv
<1>5. \A u, v \in Workers : u \in Busy' /\ v \in Busy' => u = v
    BY <1>2 DEF Busy
<1> QED BY <1>1, <1>3, <1>4, <1>5
        DEF WatchInv, StoppedIsQuiet, FilesDescend, diskVars, faultVars

\* A step of the only refresh under way keeps the invariant if it does for
\* that refresh, for the files and for what is stored.
LEMMA OneRunMoves ==
    ASSUME WatchInv, NEW w \in Workers, stage[w] # "idle",
           NEW s \in Stages, stage' = [stage EXCEPT ![w] = s],
           process' = process \/ (s = "idle" /\ process' = "down"),
           TypeOK', FilesDescend', strays' <= crashes', crashes' <= faults',
           stored' <= source', RunInv(w)'
    PROVE  WatchInv'
<1>1. \A v \in Workers : v # w => stage'[v] = "idle"
    BY DEF WatchInv, TypeOK, Busy
<1>2. \A v \in Workers : RunInv(v)'
    BY <1>1 DEF RunInv
<1>3. \A u, v \in Workers : u \in Busy' /\ v \in Busy' => u = v
    BY <1>1 DEF Busy
<1>4. process # "down"
    BY DEF WatchInv, StoppedIsQuiet, Busy
<1>5. process' = "down" => Busy' = {}
    BY <1>1, <1>4 DEF Busy, WatchInv, TypeOK
<1>6. StoppedIsQuiet'
    BY <1>5 DEF StoppedIsQuiet
<1> QED BY <1>2, <1>3, <1>6 DEF WatchInv

\* The steps of a refresh up to the files.
LEMMA RefreshKeepsInv ==
    ASSUME WatchInv, NEW w \in Workers,
           LoadSources(w) \/ RejectSources(w) \/ Import(w) \/ Assess(w)
               \/ WriteTemporary(w)
    PROVE  WatchInv'
<1> USE DEF GoTo
<1>0. WatchInv /\ RunInv(w) /\ TypeOK
    BY DEF WatchInv
<1>1. CASE LoadSources(w)
    <2>1. /\ stage[w] = "loading" /\ stage' = [stage EXCEPT ![w] = "importing"]
          /\ version' = [version EXCEPT ![w] = source]
          /\ UNCHANGED <<source, readable, process, written, stored, files,
                         printed, strays, crashes, faults>>
        BY <1>1 DEF LoadSources, diskVars, faultVars
    <2>2. TypeOK' /\ "importing" \in Stages
        BY <1>0, <2>1 DEF TypeOK, Stages
    <2>3. RunInv(w)'
        BY <1>0, <2>1 DEF RunInv, TypeOK, WatchInv
    <2> QED BY <2>1, <2>2, <2>3, OneRunMoves DEF WatchInv, FilesDescend
<1>2. CASE RejectSources(w)
    <2>1. /\ stage[w] = "loading" /\ stage' = [stage EXCEPT ![w] = "idle"]
          /\ process' = process \/ process' = "down"
          /\ UNCHANGED <<source, readable, version, written, stored, files,
                         printed, strays, crashes, faults>>
        BY <1>2 DEF RejectSources, ExitWithRun, diskVars, faultVars
    <2>2. TypeOK' /\ "idle" \in Stages
        BY <1>0, <2>1 DEF TypeOK, Stages
    <2>3. RunInv(w)'
        BY <1>0, <2>1 DEF RunInv, TypeOK
    <2> QED BY <2>1, <2>2, <2>3, OneRunMoves DEF WatchInv, FilesDescend
<1>3. CASE Import(w)
    <2>1. /\ stage[w] = "importing" /\ stage' = [stage EXCEPT ![w] = "assessing"]
          /\ stored' = version[w]
          /\ UNCHANGED <<source, readable, process, version, written, files,
                         printed, strays, crashes, faults>>
        BY <1>3 DEF Import, faultVars
    <2>2. TypeOK' /\ "assessing" \in Stages
        BY <1>0, <2>1 DEF TypeOK, Stages
    <2>3. stored <= stored' /\ stored' <= source'
        BY <1>0, <2>1 DEF RunInv
    <2>4. RunInv(w)'
        BY <1>0, <2>1 DEF RunInv, TypeOK
    <2>5. FilesDescend'
        BY <1>0, <2>1, <2>3 DEF WatchInv, FilesDescend, TypeOK
    <2> QED BY <2>1, <2>2, <2>3, <2>4, <2>5, OneRunMoves DEF WatchInv
<1>4. CASE Assess(w)
    <2>1. /\ stage[w] = "assessing" /\ stage' = [stage EXCEPT ![w] = "writing"]
          /\ version' = [version EXCEPT ![w] = stored]
          /\ written' = [written EXCEPT ![w] = 0]
          /\ UNCHANGED <<source, readable, process, stored, files,
                         printed, strays, crashes, faults>>
        BY <1>4 DEF Assess, diskVars, faultVars
    <2>2. TypeOK' /\ "writing" \in Stages
        BY <1>0, <2>1, WatchAssumption DEF TypeOK, Stages
    <2>3. RunInv(w)'
        BY <1>0, <2>1, WatchAssumption DEF RunInv, TypeOK, Files
    <2> QED BY <2>1, <2>2, <2>3, OneRunMoves DEF WatchInv, FilesDescend
<1>5. CASE WriteTemporary(w)
    <2>1. /\ stage[w] = "writing" /\ stage' = [stage EXCEPT ![w] = "replacing"]
          /\ UNCHANGED <<source, readable, process, version, written, stored,
                         files, printed, strays, crashes, faults>>
        BY <1>5 DEF WriteTemporary, diskVars, faultVars
    <2>2. TypeOK' /\ "replacing" \in Stages
        BY <1>0, <2>1 DEF TypeOK, Stages
    <2>3. RunInv(w)'
        BY <1>0, <2>1 DEF RunInv, TypeOK
    <2> QED BY <2>1, <2>2, <2>3, OneRunMoves DEF WatchInv, FilesDescend
<1> QED BY <1>1, <1>2, <1>3, <1>4, <1>5

\* The file that is replaced comes to show what is stored, and so do all the
\* files before it.
LEMMA ReplaceKeepsInv ==
    ASSUME WatchInv, NEW w \in Workers, ReplaceFile(w)
    PROVE  /\ WatchInv'
           /\ \A f \in Files : files'[f] >= files[f]
<1> DEFINE next == written[w] + 1
<1>1. /\ TypeOK /\ RunInv(w) /\ FilesDescend
      /\ stage[w] = "replacing"
      /\ files' = [files EXCEPT ![next] = version[w]]
      /\ written' = [written EXCEPT ![w] = next]
      /\ UNCHANGED <<source, readable, version, stored, strays, crashes, faults>>
    BY DEF ReplaceFile, WatchInv, faultVars
<1>2. /\ version[w] = stored /\ stored \in Int
      /\ next \in Files /\ next \in Int /\ written[w] \in Int /\ FileCount \in Int
      /\ written'[w] = next
    BY <1>1, WatchAssumption DEF RunInv, TypeOK, Files
<1>3. /\ \A f \in Files : f \in Int /\ files[f] \in Int
      /\ \A f \in Files : files'[f] = IF f = next THEN stored ELSE files[f]
    BY <1>1, <1>2 DEF TypeOK, Files
<1>4. \A f \in Files : f <= next => files'[f] = stored
    BY <1>1, <1>2, <1>3 DEF RunInv
<1>5. \A f \in Files : files[f] <= stored /\ printed <= files[f] /\ printed \in Int
    BY <1>1 DEF FilesDescend, TypeOK
<1>6. \A f \in Files : /\ files'[f] >= files[f] /\ files'[f] <= stored
                       /\ files'[f] \in Int /\ printed <= files'[f]
    BY <1>2, <1>3, <1>5
<1>7. \A f, g \in Files : f < g => files'[f] >= files'[g]
    <2> SUFFICES ASSUME NEW f \in Files, NEW g \in Files, f < g
                 PROVE  files'[f] >= files'[g]
        OBVIOUS
    <2>1. CASE f <= next
        BY <2>1, <1>4, <1>6
    <2>2. CASE f > next
        <3>1. f # next /\ g # next
            BY <2>2, <1>2, <1>3
        <3> QED BY <3>1, <1>1, <1>3 DEF FilesDescend
    <2> QED BY <2>1, <2>2, <1>2, <1>3
<1>8. files' \in [Files -> 0..MaxEdits] /\ written' \in [Workers -> 0..FileCount]
    BY <1>1, <1>2 DEF TypeOK, Files
<1>9. CASE next = FileCount
    <2>1. /\ stage' = [stage EXCEPT ![w] = "idle"] /\ printed' = stored
          /\ process' = process \/ process' = "down"
        BY <1>2, <1>9 DEF ReplaceFile, GoTo, ExitWithRun
    <2>2. \A f \in Files : printed' <= files'[f]
        BY <1>2, <1>3, <1>4, <1>9, <2>1 DEF Files
    <2>3. FilesDescend'
        BY <1>1, <1>6, <1>7, <2>2 DEF FilesDescend
    <2>4. TypeOK' /\ "idle" \in Stages
        BY <1>1, <1>8, <2>1 DEF TypeOK, Stages
    <2>5. RunInv(w)'
        BY <1>1, <2>1 DEF RunInv, TypeOK
    <2> QED BY <1>1, <1>6, <2>1, <2>3, <2>4, <2>5, OneRunMoves DEF WatchInv
<1>10. CASE next # FileCount
    <2>1. /\ stage' = [stage EXCEPT ![w] = "writing"]
          /\ UNCHANGED <<printed, process>>
        BY <1>2, <1>10 DEF ReplaceFile, GoTo
    <2>2. FilesDescend'
        BY <1>1, <1>6, <1>7, <2>1 DEF FilesDescend
    <2>3. TypeOK' /\ "writing" \in Stages
        BY <1>1, <1>8, <2>1 DEF TypeOK, Stages
    <2>4. next < FileCount
        BY <1>2, <1>10 DEF Files
    <2>5. RunInv(w)'
        BY <1>1, <1>2, <1>4, <2>1, <2>4 DEF RunInv, TypeOK
    <2> QED BY <1>1, <1>6, <2>1, <2>2, <2>3, <2>5, OneRunMoves DEF WatchInv
<1> QED BY <1>9, <1>10

\* What a run cut short may have stored is no older than what was there.
LEMMA CutShortStores ==
    ASSUME WatchInv, NEW ws \in SUBSET Workers, CutShort(ws)
    PROVE  stored <= stored' /\ stored' <= source /\ stored' \in 0..MaxEdits
<1>1. CASE stored' = stored
    BY <1>1 DEF WatchInv, TypeOK
<1>2. CASE \E w \in ws : stage[w] = "importing" /\ stored' = version[w]
    <2>1. PICK w \in ws : stage[w] = "importing" /\ stored' = version[w]
        BY <1>2
    <2> QED BY <2>1 DEF WatchInv, RunInv, TypeOK
<1> QED BY <1>1, <1>2 DEF CutShort

LEMMA FailureKeepsInv ==
    ASSUME WatchInv, NEW w \in Workers, RunFails(w)
    PROVE  WatchInv'
<1>1. /\ TypeOK /\ stage[w] # "idle" /\ faults < MaxFaults
      /\ stage' = [stage EXCEPT ![w] = "idle"]
      /\ process' = process \/ process' = "down"
      /\ faults' = faults + 1
      /\ UNCHANGED <<source, readable, version, written, files, printed, strays,
                     crashes>>
      /\ CutShort({w})
    BY DEF RunFails, GoTo, ExitWithRun, WatchInv
<1>2. stored <= stored' /\ stored' <= source /\ stored' \in 0..MaxEdits
    BY <1>1, CutShortStores
<1>3. FilesDescend'
    BY <1>1, <1>2 DEF WatchInv, FilesDescend, TypeOK
<1>4. TypeOK' /\ "idle" \in Stages
    BY <1>1, <1>2, WatchAssumption DEF TypeOK, Stages
<1>5. RunInv(w)'
    BY <1>1 DEF RunInv, TypeOK
<1>6. strays' <= crashes' /\ crashes' <= faults'
    BY <1>1 DEF WatchInv, TypeOK
<1> QED BY <1>1, <1>2, <1>3, <1>4, <1>5, <1>6, OneRunMoves DEF WatchInv

\* A crash leaves at most the temporary file of the one refresh under way.
LEMMA CrashKeepsInv ==
    ASSUME WatchInv, Crash
    PROVE  WatchInv'
<1>1. /\ TypeOK /\ faults < MaxFaults
      /\ process' = "down" /\ stage' = [w \in Workers |-> "idle"]
      /\ crashes' = crashes + 1 /\ faults' = faults + 1
      /\ UNCHANGED <<source, readable, version, written, files, printed>>
      /\ CutShort(Workers)
    BY DEF Crash, WatchInv
<1>2. stored <= stored' /\ stored' <= source /\ stored' \in 0..MaxEdits
    BY <1>1, CutShortStores
<1>3. ASSUME NEW stages \in SUBSET {"writing", "replacing"}
      PROVE  Cardinality(Holding(stages)) \in {0, 1}
    <2>1. Holding(stages) \subseteq Busy
        BY DEF Holding, Busy
    <2>2. CASE Holding(stages) = {}
        BY <2>2, FS_EmptySet
    <2>3. CASE Holding(stages) # {}
        <3>1. PICK w \in Workers : w \in Holding(stages)
            BY <2>3 DEF Holding
        <3>2. Holding(stages) = {w}
            BY <2>1, <3>1 DEF WatchInv, Busy
        <3> QED BY <3>2, FS_Singleton
    <2> QED BY <2>2, <2>3
<1>4. strays' \in {strays, strays + 1}
    BY <1>1, <1>3 DEF Crash, TypeOK
<1>5. /\ strays' <= crashes' /\ crashes' <= faults'
      /\ strays' \in 0..MaxFaults /\ crashes' \in 0..MaxFaults
      /\ faults' \in 0..MaxFaults
    BY <1>1, <1>4, WatchAssumption DEF WatchInv, TypeOK
<1>6. TypeOK'
    BY <1>1, <1>2, <1>5 DEF TypeOK, Stages
<1>7. FilesDescend'
    BY <1>1, <1>2 DEF WatchInv, FilesDescend, TypeOK
<1>8. Busy' = {} /\ \A w \in Workers : RunInv(w)'
    BY <1>1 DEF Busy, RunInv
<1> QED BY <1>1, <1>2, <1>5, <1>6, <1>7, <1>8 DEF WatchInv, StoppedIsQuiet

LEMMA WatchInvStep == WatchInv /\ [Next]_vars => WatchInv'
<1> SUFFICES ASSUME WatchInv, [Next]_vars PROVE WatchInv'
    OBVIOUS
<1>1. CASE EditSources \/ StartWatching \/ Interrupt \/ Stop \/ UNCHANGED vars
    BY <1>1, OutsideKeepsInv
<1>2. CASE Crash
    BY <1>2, CrashKeepsInv
<1>3. ASSUME NEW w \in Workers, RunOnce(w) \/ Fire(w) \/ RunStep(w) \/ RunFails(w)
      PROVE  WatchInv'
    BY <1>3, StartKeepsInv, RefreshKeepsInv, ReplaceKeepsInv, FailureKeepsInv
    DEF RunStep
<1> QED BY <1>1, <1>2, <1>3 DEF Next

LEMMA WatchInvariant == Spec => []WatchInv
BY WatchInvInit, WatchInvStep, PTL DEF Spec

-----------------------------------------------------------------------------

\* Every variable of the watcher keeps its type.
THEOREM WatchTypes == Spec => []TypeOK
<1>1. WatchInv => TypeOK
    BY DEF WatchInv
<1> QED BY <1>1, WatchInvariant, PTL

\* Whatever fails or dies half way, the output files in their order show
\* evidence that never gets newer, and none of them is older than the last
\* success or newer than the database.
THEOREM FilesStayInOrder == Spec => []FilesDescend
<1>1. WatchInv => FilesDescend
    BY DEF WatchInv
<1> QED BY <1>1, WatchInvariant, PTL

\* Temporary files are left by crashes only, one each at most.
THEOREM OnlyCrashesLeaveFiles == Spec => []StraysOnlyFromCrashes
<1>1. WatchInv => StraysOnlyFromCrashes
    BY DEF WatchInv, StraysOnlyFromCrashes
<1> QED BY <1>1, WatchInvariant, PTL

\* No refresh goes on in a process that is gone.
THEOREM NothingRunsAfterShutdown == Spec => []StoppedIsQuiet
<1>1. WatchInv => StoppedIsQuiet
    BY DEF WatchInv
<1> QED BY <1>1, WatchInvariant, PTL

\* No step puts older output over newer.
THEOREM FilesOnlyGetNewer == Spec => FilesNeverOlder
<1> DEFINE Newer == \A f \in Files : files'[f] >= files[f]
<1>1. WatchInv /\ [Next]_vars => [Newer]_files
    <2> SUFFICES ASSUME WatchInv, [Next]_vars, files' # files
                 PROVE  Newer
        OBVIOUS
    <2>1. PICK w \in Workers : ReplaceFile(w)
        BY DEF Next, RunStep, EditSources, StartWatching, Interrupt, Stop, Crash,
               RunOnce, Fire, LoadSources, RejectSources, Import, Assess,
               WriteTemporary, RunFails, vars, diskVars
    <2> QED BY <2>1, ReplaceKeepsInv
<1> QED BY <1>1, WatchInvariant, PTL DEF Spec, FilesNeverOlder
=============================================================================
