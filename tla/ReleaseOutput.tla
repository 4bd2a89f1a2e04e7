---------------------------- MODULE ReleaseOutput ----------------------------
(***************************************************************************)
(* scripts/package_release.py builds a release in a staging directory and  *)
(* exchanges it for the output directory; scripts/release_check.py checks  *)
(* the assets in the output directory against their checksums.             *)
(*                                                                         *)
(* Runs of the packager may overlap, fail or be killed anywhere, a check   *)
(* may go on meanwhile, and someone may put a file into the directory.     *)
(*                                                                         *)
(* Abstractions.  A directory is None or the set of its files; a file is   *)
(* its name and the run that made it, so files of two runs differ in their *)
(* digests.  Building, validating and trying out an archive can only fail: *)
(* that is RunFails.  A path that is no directory is refused like one that *)
(* holds a stranger's file.  Each os.replace is atomic and refuses to      *)
(* replace a directory that is not empty, as POSIX has it.                 *)
(***************************************************************************)
EXTENDS FiniteSets

CONSTANTS
    Runs,       \* runs of the packager
    Earlier,    \* a run that made a release before the model begins
    Assets,     \* wheel, sdist, bundle, report, calendar
    None

Checksums == "SHA256SUMS.txt"
Marker == ".sunset-sentinel-release-output"
Notes == "notes"

\* A file of a directory: its name and the run that made it.
Files ==
    [name : Assets \cup {Checksums, Marker, Notes},
     of : Runs \cup {Earlier, None}]

ASSUME ReleaseOutputAssumption ==
    /\ None \notin Runs \cup {Earlier}
    /\ \A directory \in SUBSET Files : directory # None
    /\ {Checksums, Marker, Notes} \cap Assets = {}

VARIABLES
    pc,         \* where each run is
    staging,    \* its staging directory
    backup,     \* the directory it moved the old output to
    output,     \* the output directory
    check,      \* the check under way: its stage and what it has read
    released,   \* history: there has been a release
    unguarded   \* history: notes were put where the packager may take them

publishVars == <<pc, staging, backup, output>>
releaseVars == <<publishVars, check, released, unguarded>>

File(name, run) == [name |-> name, of |-> run]
Note == File(Notes, None)
AssetsOf(run) == {File(a, run) : a \in Assets}
Release(run) == AssetsOf(run) \cup {File(Checksums, run), File(Marker, run)}

Names(directory) == {f.name : f \in directory}
Exists(directory) == directory # None

\* One whole release, among which someone may have put a file.
Whole(directory) ==
    /\ Exists(directory)
    /\ \E run \in Runs \cup {Earlier} :
           directory \in {Release(run), Release(run) \cup {Note}}

ReleaseInit ==
    /\ pc = [r \in Runs |-> "idle"]
    /\ staging = [r \in Runs |-> None]
    /\ backup = [r \in Runs |-> None]
    /\ output \in {None, {}, {Note}, Release(Earlier)}
    /\ check = [stage |-> "idle", listed |-> {}, manifest |-> None, read |-> {}]
    /\ released = Whole(output)
    /\ unguarded = FALSE

GoTo(r, s) == pc' = [pc EXCEPT ![r] = s]

-----------------------------------------------------------------------------
(***************************************************************************)
(* Building                                                                *)
(***************************************************************************)

\* Neither absent, nor empty, nor marked.
Unowned(directory) ==
    Exists(directory) /\ directory # {} /\ Marker \notin Names(directory)

\* _validate_existing_output
Validate(r) ==
    /\ pc[r] = "idle"
    /\ GoTo(r, IF Unowned(output) THEN "failed" ELSE "validated")
    /\ UNCHANGED <<staging, backup, output, check, released, unguarded>>

\* mkdtemp beside the output directory.
MakeStaging(r) ==
    /\ pc[r] = "validated"
    /\ staging' = [staging EXCEPT ![r] = {}]
    /\ GoTo(r, "building")
    /\ UNCHANGED <<backup, output, check, released, unguarded>>

CopyAsset(r) ==
    /\ pc[r] = "building"
    /\ \E asset \in AssetsOf(r) \ staging[r] :
           staging' = [staging EXCEPT ![r] = @ \cup {asset}]
    /\ UNCHANGED <<pc, backup, output, check, released, unguarded>>

\* _write_checksums of what has been copied, when everything has.
WriteChecksums(r) ==
    /\ pc[r] = "building"
    /\ staging[r] = AssetsOf(r)
    /\ staging' = [staging EXCEPT ![r] = @ \cup {File(Checksums, r)}]
    /\ GoTo(r, "summed")
    /\ UNCHANGED <<backup, output, check, released, unguarded>>

WriteMarker(r) ==
    /\ pc[r] = "summed"
    /\ staging' = [staging EXCEPT ![r] = @ \cup {File(Marker, r)}]
    /\ GoTo(r, "packed")
    /\ UNCHANGED <<backup, output, check, released, unguarded>>

-----------------------------------------------------------------------------
(***************************************************************************)
(* _publish_staging                                                        *)
(***************************************************************************)

\* Mutant of CheckOwnership: whatever is in the output is the packager's.
CheckNothing(r) ==
    /\ pc[r] = "packed"
    /\ GoTo(r, IF Exists(output) THEN "owned" ELSE "replacing")
    /\ UNCHANGED <<staging, backup, output, check, released, unguarded>>

CheckOwnership(r) ==
    /\ pc[r] = "packed"
    /\ GoTo(r, IF ~Exists(output) THEN "replacing"
               ELSE IF Unowned(output) THEN "cleaning" ELSE "owned")
    /\ UNCHANGED <<staging, backup, output, check, released, unguarded>>

\* Mutant of MoveAside: the old output is removed, not kept.
RemoveOld(r) ==
    /\ pc[r] = "owned"
    /\ output' = None
    /\ GoTo(r, "replacing")
    /\ UNCHANGED <<staging, backup, check, released, unguarded>>

\* os.replace(output, backup), which fails if another run has moved it away.
MoveAside(r) ==
    /\ pc[r] = "owned"
    /\ IF Exists(output)
       THEN /\ backup' = [backup EXCEPT ![r] = output]
            /\ output' = None
            /\ GoTo(r, "replacing")
       ELSE /\ GoTo(r, "cleaning")
            /\ UNCHANGED <<backup, output>>
    /\ UNCHANGED <<staging, check, released, unguarded>>

Free(directory) == ~Exists(directory) \/ directory = {}

\* os.replace(staging, output)
ReplaceOutput(r) ==
    /\ pc[r] = "replacing"
    /\ Free(output)
    /\ output' = staging[r]
    /\ staging' = [staging EXCEPT ![r] = None]
    /\ released' = TRUE
    /\ GoTo(r, "replaced")
    /\ UNCHANGED <<backup, check, unguarded>>

\* It fails, because someone filled the output or for a reason of its own.
ReplaceFails(r) ==
    /\ pc[r] = "replacing"
    /\ GoTo(r, IF Exists(backup[r]) /\ ~Exists(output)
               THEN "restoring" ELSE "cleaning")
    /\ UNCHANGED <<staging, backup, output, check, released, unguarded>>

\* os.replace(backup, output)
Restore(r) ==
    /\ pc[r] = "restoring"
    /\ IF Free(output)
       THEN /\ output' = backup[r]
            /\ backup' = [backup EXCEPT ![r] = None]
       ELSE UNCHANGED <<output, backup>>
    /\ GoTo(r, "cleaning")
    /\ UNCHANGED <<staging, check, released, unguarded>>

RemoveBackup(r) ==
    /\ pc[r] = "replaced"
    /\ backup' = [backup EXCEPT ![r] = None]
    /\ GoTo(r, "published")
    /\ UNCHANGED <<staging, output, check, released, unguarded>>

-----------------------------------------------------------------------------
(***************************************************************************)
(* Failure                                                                 *)
(***************************************************************************)

\* The except clause of main removes a staging directory that is still there.
CleanUp(r) ==
    /\ pc[r] = "cleaning"
    /\ staging' = [staging EXCEPT ![r] = None]
    /\ GoTo(r, "failed")
    /\ UNCHANGED <<backup, output, check, released, unguarded>>

\* A directory whose removal was cut short.
PartOf(directory) ==
    IF Exists(directory) THEN SUBSET directory ELSE {None}

\* What a run that stops here leaves half removed.
LeaveHalfRemoved(r) ==
    /\ IF pc[r] = "cleaning"
       THEN \E rest \in PartOf(staging[r]) :
                staging' = [staging EXCEPT ![r] = rest]
       ELSE UNCHANGED staging
    /\ IF pc[r] = "replaced"
       THEN \E rest \in PartOf(backup[r]) :
                backup' = [backup EXCEPT ![r] = rest]
       ELSE UNCHANGED backup

InTry == {"building", "summed", "packed", "owned", "replacing", "restoring"}

\* An exception: an archive with forbidden members, a wheel that does not
\* work, a full disk, an interrupt (just before the inner try, too).
RunFails(r) ==
    /\ pc[r] \in InTry \cup {"validated", "replaced", "cleaning"}
    /\ LeaveHalfRemoved(r)
    /\ GoTo(r, IF pc[r] \in InTry THEN "cleaning" ELSE "failed")
    /\ UNCHANGED <<output, check, released, unguarded>>

\* The run is killed.
RunDies(r) ==
    /\ pc[r] \notin {"idle", "published", "failed", "dead"}
    /\ LeaveHalfRemoved(r)
    /\ GoTo(r, "dead")
    /\ UNCHANGED <<output, check, released, unguarded>>

\* Someone keeps notes in the output directory.
PutNotes ==
    /\ \/ ~Exists(output)
       \/ Exists(output) /\ Note \notin output
    /\ output' = (IF Exists(output) THEN output ELSE {}) \cup {Note}
    /\ unguarded' = (\/ unguarded
                     \/ Exists(output) /\ Marker \in Names(output)
                     \/ \E r \in Runs : pc[r] = "owned")
    /\ UNCHANGED <<pc, staging, backup, check, released>>

-----------------------------------------------------------------------------
(***************************************************************************)
(* release_check.py: _assets_and_checksums                                 *)
(***************************************************************************)

\* _asset_files: the marker is there and so is every asset.
ListAssets ==
    /\ check.stage = "idle"
    /\ IF /\ Exists(output)
          /\ Marker \in Names(output)
          /\ Assets \cup {Checksums} \subseteq Names(output)
       THEN check' = [check EXCEPT !.stage = "listed",
                                   !.listed = Names(output) \ {Marker}]
       ELSE check' = [check EXCEPT !.stage = "refused"]
    /\ UNCHANGED <<publishVars, released, unguarded>>

\* The manifest must name the listed files, itself aside.
ReadManifest ==
    /\ check.stage = "listed"
    /\ \/ \E run \in Runs \cup {Earlier} :
              /\ Exists(output) /\ File(Checksums, run) \in output
              /\ check.listed \ {Checksums} = Assets
              /\ check' = [check EXCEPT !.stage = "reading", !.manifest = run]
       \/ /\ \/ ~Exists(output)
             \/ Exists(output) /\ Checksums \notin Names(output)
             \/ check.listed \ {Checksums} # Assets
          /\ check' = [check EXCEPT !.stage = "refused"]
    /\ UNCHANGED <<publishVars, released, unguarded>>

\* Mutant of DigestAgrees: the file only has to be there.
FileIsThere(f) == Exists(output) /\ f.name \in Names(output)

DigestAgrees(f) == Exists(output) /\ f \in output

\* The digest of one asset that is still to be compared.
CompareDigest(name) ==
    /\ check.stage = "reading"
    /\ name \in check.listed \ ({Checksums} \cup Names(check.read))
    /\ IF DigestAgrees(File(name, check.manifest))
       THEN check' = [check EXCEPT !.read =
                @ \cup {f \in output : f.name = name}]
       ELSE check' = [check EXCEPT !.stage = "refused"]
    /\ UNCHANGED <<publishVars, released, unguarded>>

PassAssets ==
    /\ check.stage = "reading"
    /\ check.listed = {Checksums} \cup Names(check.read)
    /\ check' = [check EXCEPT !.stage = "passed"]
    /\ UNCHANGED <<publishVars, released, unguarded>>

-----------------------------------------------------------------------------
PackageStep(r) ==
    \/ Validate(r) \/ MakeStaging(r)
    \/ CopyAsset(r) \/ WriteChecksums(r) \/ WriteMarker(r)
    \/ CheckOwnership(r) \/ MoveAside(r)
    \/ ReplaceOutput(r) \/ ReplaceFails(r) \/ Restore(r)
    \/ RemoveBackup(r)
    \/ CleanUp(r) \/ RunFails(r) \/ RunDies(r)

CheckStep ==
    \/ ListAssets \/ ReadManifest \/ PassAssets
    \/ \E name \in Assets : CompareDigest(name)

ReleaseNext == (\E r \in Runs : PackageStep(r)) \/ PutNotes \/ CheckStep

ReleaseSpec == ReleaseInit /\ [][ReleaseNext]_releaseVars

-----------------------------------------------------------------------------
(***************************************************************************)
(* Properties                                                              *)
(***************************************************************************)

\* Wherever runs fail, die or meet, the output directory is absent, empty,
\* someone's notes or one whole release, and once there has been a release a
\* whole one is on disk: in the output, or in the backup of a run that did
\* not get to the end (main: "atomically replace owned output"; between its
\* two moves the output is absent for a moment, or for good after a kill).
ReleasesStayWhole ==
    /\ output \in {None, {}, {Note}} \/ Whole(output)
    /\ released => \/ Whole(output)
                   \/ \E r \in Runs : Whole(backup[r])

\* Notes in a directory without the marker stay there, whatever the runs that
\* are under way looked at before: only notes put among the assets of a release,
\* or between a run's last look at the directory and its move, may be taken.
NotesAreKept ==
    [][Exists(output) /\ Note \in output /\ ~unguarded
           => Exists(output') /\ Note \in output']_releaseVars

\* An asset check that passes has compared the assets of one run, all of them
\* and no others, with that run's checksums, even if the directory was
\* exchanged while it read.
CheckPassesOneRelease ==
    check.stage = "passed" => check.read = AssetsOf(check.manifest)

=============================================================================
