------------------------------- MODULE Watch -------------------------------
(***************************************************************************)
(* cli.py _run_watch with services/scheduler.py: a process that refreshes  *)
(* its output files from local sources, on an interval or once.            *)
(*                                                                         *)
(* APScheduler is external: while it runs it fires the interval job again  *)
(* and again, hands each run to a worker thread, skips a firing when       *)
(* max_instances runs of the job are under way, keeps the job when a run   *)
(* raises, and its shutdown(wait=True) joins the workers.  When the first  *)
(* firing comes is left open.                                              *)
(*                                                                         *)
(* Abstractions.  Source files carry the number of their last edit, and so *)
(* do the evidence imported from them and the output rendered from it.     *)
(* What an import does to the tables is module Ingest.  Output files are   *)
(* 1..FileCount in sorted order of their names; an output that no refresh  *)
(* has replaced has edit number 0.                                         *)
(***************************************************************************)
EXTENDS Integers, FiniteSets

CONSTANTS
    Workers,        \* threads a run of the job may occupy
    FileCount,      \* output files (five in the code)
    MaxEdits,       \* bound: edits of the source files
    MaxFaults       \* bound: crashes and I/O errors

Files == 1..FileCount

ASSUME WatchAssumption ==
    /\ IsFiniteSet(Workers) /\ Workers # {}
    /\ FileCount \in Nat \ {0}
    /\ MaxEdits \in Nat \ {0}
    /\ MaxFaults \in Nat

VARIABLES
    source,     \* number of edits of the source files
    readable,   \* whether the loaders accept them
    process,    \* "down", "watching", "once" or "stopping"
    stage,      \* of the refresh in each worker
    version,    \* edit number each refresh works with
    written,    \* how many files it has replaced
    stored,     \* edit number of the evidence in the database
    files,      \* edit number each output file shows
    printed,    \* edit number of the last refresh that reported success
    strays,     \* temporary files left in the output directory
    crashes,    \* crashes so far
    faults      \* crashes and I/O errors so far

runVars == <<stage, version, written>>
diskVars == <<stored, files, printed, strays>>
faultVars == <<crashes, faults>>
vars == <<source, readable, process, runVars, diskVars, faultVars>>

Stages == {"idle", "loading", "importing", "assessing", "writing", "replacing"}

Busy == {w \in Workers : stage[w] # "idle"}

Init ==
    /\ source = 1
    /\ readable = TRUE
    /\ process = "down"
    /\ stage = [w \in Workers |-> "idle"]
    /\ version = [w \in Workers |-> 0]
    /\ written = [w \in Workers |-> 0]
    /\ stored = 0
    /\ files = [f \in Files |-> 0]
    /\ printed = 0
    /\ strays = 0
    /\ crashes = 0
    /\ faults = 0

\* Someone edits the source files, and may break or repair them.
EditSources ==
    /\ source < MaxEdits
    /\ source' = source + 1
    /\ readable' \in BOOLEAN
    /\ UNCHANGED <<process, runVars, diskVars, faultVars>>

GoTo(w, s) == stage' = [stage EXCEPT ![w] = s]

\* watch --once: schedule_scan and run_now in the main thread.
RunOnce(w) ==
    /\ process = "down"
    /\ process' = "once"
    /\ GoTo(w, "loading")
    /\ UNCHANGED <<source, readable, version, written, diskVars, faultVars>>

\* watch: schedule_scan and start.
StartWatching ==
    /\ process = "down"
    /\ process' = "watching"
    /\ UNCHANGED <<source, readable, runVars, diskVars, faultVars>>

\* Mutant of Fire: no limit on the runs under way.
FireAnyway(w) ==
    /\ process = "watching"
    /\ stage[w] = "idle"
    /\ GoTo(w, "loading")
    /\ UNCHANGED <<source, readable, process, version, written, diskVars,
                   faultVars>>

\* Mutant of Fire: the timer goes on during the shutdown.
FireUntilDown(w) ==
    /\ process \in {"watching", "stopping"}
    /\ Busy = {}
    /\ GoTo(w, "loading")
    /\ UNCHANGED <<source, readable, process, version, written, diskVars,
                   faultVars>>

\* The interval elapses; with max_instances = 1 a firing during a run is
\* skipped.
Fire(w) ==
    /\ process = "watching"
    /\ Busy = {}
    /\ GoTo(w, "loading")
    /\ UNCHANGED <<source, readable, process, version, written, diskVars,
                   faultVars>>

\* A refresh ends, with a report or an exception; --once ends with it.
ExitWithRun == process' = IF process = "once" THEN "down" ELSE process

LoadSources(w) ==
    /\ stage[w] = "loading"
    /\ readable
    /\ version' = [version EXCEPT ![w] = source]
    /\ GoTo(w, "importing")
    /\ UNCHANGED <<source, readable, process, written, diskVars, faultVars>>

\* A loader raises before the database is touched.
RejectSources(w) ==
    /\ stage[w] = "loading"
    /\ ~readable
    /\ GoTo(w, "idle")
    /\ ExitWithRun
    /\ UNCHANGED <<source, readable, version, written, diskVars, faultVars>>

\* Mutant of Import: evidence that is there already is not replaced.
ImportOnlyNew(w) ==
    /\ stage[w] = "importing"
    /\ stored' = IF stored = 0 THEN version[w] ELSE stored
    /\ GoTo(w, "assessing")
    /\ UNCHANGED <<source, readable, process, version, written, files, printed,
                   strays, faultVars>>

Import(w) ==
    /\ stage[w] = "importing"
    /\ stored' = version[w]
    /\ GoTo(w, "assessing")
    /\ UNCHANGED <<source, readable, process, version, written, files, printed,
                   strays, faultVars>>

\* assess_repository and the five renderings, in memory.
Assess(w) ==
    /\ stage[w] = "assessing"
    /\ version' = [version EXCEPT ![w] = stored]
    /\ written' = [written EXCEPT ![w] = 0]
    /\ GoTo(w, "writing")
    /\ UNCHANGED <<source, readable, process, diskVars, faultVars>>

\* _atomic_write_text: mkstemp in the output directory, write, fsync.
WriteTemporary(w) ==
    /\ stage[w] = "writing"
    /\ GoTo(w, "replacing")
    /\ UNCHANGED <<source, readable, process, version, written, diskVars,
                   faultVars>>

\* Mutant of ReplaceFile: the files in descending order of their names.
ReplaceFileFromEnd(w) ==
    /\ stage[w] = "replacing"
    /\ files' = [files EXCEPT ![FileCount - written[w]] = version[w]]
    /\ written' = [written EXCEPT ![w] = @ + 1]
    /\ IF written'[w] = FileCount
       THEN GoTo(w, "idle") /\ printed' = version[w] /\ ExitWithRun
       ELSE GoTo(w, "writing") /\ UNCHANGED <<printed, process>>
    /\ UNCHANGED <<source, readable, version, stored, strays, faultVars>>

\* os.replace; after the last file the refresh prints its payload.
ReplaceFile(w) ==
    /\ stage[w] = "replacing"
    /\ files' = [files EXCEPT ![written[w] + 1] = version[w]]
    /\ written' = [written EXCEPT ![w] = @ + 1]
    /\ IF written'[w] = FileCount
       THEN GoTo(w, "idle") /\ printed' = version[w] /\ ExitWithRun
       ELSE GoTo(w, "writing") /\ UNCHANGED <<printed, process>>
    /\ UNCHANGED <<source, readable, version, stored, strays, faultVars>>

\* A run cut short while it imports has committed all of the import or less.
CutShort(ws) ==
    stored' \in {stored} \cup {version[w] : w \in {v \in ws : stage[v] = "importing"}}

\* Mutant of RunFails: the temporary file is not removed.
RunFailsUntidily(w) ==
    /\ stage[w] # "idle"
    /\ faults < MaxFaults
    /\ GoTo(w, "idle")
    /\ CutShort({w})
    /\ ExitWithRun
    /\ faults' = faults + 1
    /\ strays' = IF stage[w] = "replacing" THEN strays + 1 ELSE strays
    /\ UNCHANGED <<source, readable, version, written, files, printed, crashes>>

\* A full disk, a locked database, or an interrupt of --once: the exception
\* removes the temporary file and leaves the files replaced so far.
RunFails(w) ==
    /\ stage[w] # "idle"
    /\ faults < MaxFaults
    /\ GoTo(w, "idle")
    /\ CutShort({w})
    /\ ExitWithRun
    /\ faults' = faults + 1
    /\ UNCHANGED <<source, readable, version, written, files, printed, strays,
                   crashes>>

\* KeyboardInterrupt in the main thread of the watcher: shutdown(wait=True)
\* stops the firing at once and returns when no run is under way.
Interrupt ==
    /\ process = "watching"
    /\ process' = "stopping"
    /\ UNCHANGED <<source, readable, runVars, diskVars, faultVars>>

\* Mutant of Stop: shutdown(wait=False).
StopAtOnce ==
    /\ process = "stopping"
    /\ process' = "down"
    /\ UNCHANGED <<source, readable, runVars, diskVars, faultVars>>

Stop ==
    /\ process = "stopping"
    /\ Busy = {}
    /\ process' = "down"
    /\ UNCHANGED <<source, readable, runVars, diskVars, faultVars>>

Holding(stages) == {w \in Workers : stage[w] \in stages}

\* The process is killed; a temporary file stays behind, complete or not.
Crash ==
    /\ process # "down"
    /\ faults < MaxFaults
    /\ process' = "down"
    /\ stage' = [w \in Workers |-> "idle"]
    /\ CutShort(Workers)
    /\ strays' \in {strays + Cardinality(Holding({"replacing"})),
                   strays + Cardinality(Holding({"writing", "replacing"}))}
    /\ crashes' = crashes + 1
    /\ faults' = faults + 1
    /\ UNCHANGED <<source, readable, version, written, files, printed>>

RunStep(w) ==
    \/ LoadSources(w)
    \/ RejectSources(w)
    \/ Import(w)
    \/ Assess(w)
    \/ WriteTemporary(w)
    \/ ReplaceFile(w)

Next ==
    \/ EditSources
    \/ StartWatching
    \/ Interrupt
    \/ Stop
    \/ Crash
    \/ \E w \in Workers : RunOnce(w) \/ Fire(w) \/ RunStep(w) \/ RunFails(w)

\* A thread that runs keeps running, the timer of a live scheduler keeps
\* firing, and shutdown returns once the workers are joined.  Nobody is
\* obliged to edit, launch, interrupt or kill anything.
Fairness ==
    /\ \A w \in Workers : WF_vars(RunStep(w))
    /\ WF_vars(\E w \in Workers : Fire(w))
    /\ WF_vars(Stop)

Spec == Init /\ [][Next]_vars /\ Fairness

-----------------------------------------------------------------------------
(***************************************************************************)
(* Properties                                                              *)
(***************************************************************************)

\* Every variable has its type.
TypeOK ==
    /\ source \in 1..MaxEdits
    /\ readable \in BOOLEAN
    /\ process \in {"down", "watching", "once", "stopping"}
    /\ stage \in [Workers -> Stages]
    /\ version \in [Workers -> 0..MaxEdits]
    /\ written \in [Workers -> 0..FileCount]
    /\ stored \in 0..MaxEdits
    /\ files \in [Files -> 0..MaxEdits]
    /\ printed \in 0..MaxEdits
    /\ strays \in 0..MaxFaults
    /\ crashes \in 0..MaxFaults
    /\ faults \in 0..MaxFaults

\* Refreshes that fail or die half way leave the files in a readable order: a
\* file never shows evidence older than a file after it, none older than the
\* last refresh that reported success, and none newer than the database
\* (cli.py: the files are replaced in sorted order).
FilesDescend ==
    /\ \A f, g \in Files : f < g => files[f] >= files[g]
    /\ \A f \in Files : printed <= files[f] /\ files[f] <= stored

\* No refresh puts older output over newer (max_instances = 1: the runs of one
\* watcher do not overlap).
FilesNeverOlder == [][\A f \in Files : files'[f] >= files[f]]_files

\* A failed run cleans up after itself; only a crash leaves a temporary file.
StraysOnlyFromCrashes == strays <= crashes

\* shutdown(wait=True) returns after the run under way, and a process that is
\* gone writes nothing more.
StoppedIsQuiet == process = "down" => Busy = {}

\* A watcher that stays up with readable sources brings every output up to
\* date, whatever failures and crashes came before and although a failed run
\* is not retried until the next firing.
OutputsCatchUp ==
    <>[](process = "watching" /\ readable)
        => <>[](\A f \in Files : files[f] = source)

\* An interrupted watcher exits: shutdown does not wait for ever.
InterruptReturns == process = "stopping" ~> process = "down"

=============================================================================
