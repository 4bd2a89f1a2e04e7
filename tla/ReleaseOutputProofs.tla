------------------------- MODULE ReleaseOutputProofs -------------------------
(***************************************************************************)
(* Proofs about ReleaseOutput, for any number of runs of the packager.     *)
(***************************************************************************)
EXTENDS ReleaseOutput, TLAPS

Stages ==
    {"idle", "validated", "building", "summed", "packed", "owned", "replacing",
     "replaced", "restoring", "cleaning", "published", "failed", "dead"}

Building == {"idle", "validated", "building", "summed", "packed", "owned"}

\* What run r has built by the time it reaches a stage.
StagingOk(r) ==
    /\ pc[r] = "building" => staging[r] \in SUBSET AssetsOf(r)
    /\ pc[r] = "summed" =>
           staging[r] = AssetsOf(r) \cup {File(Checksums, r)}
    /\ pc[r] \in {"packed", "owned", "replacing", "restoring"} =>
           staging[r] = Release(r)

\* What an output directory may hold.
Decent(directory) == directory \in {None, {}, {Note}} \/ Whole(directory)

\* A backup that a run may still put back is as good.
BackupOk(r) ==
    /\ pc[r] \in Building => backup[r] = None
    /\ pc[r] \in {"replacing", "restoring"} => Decent(backup[r])

\* A backup is removed only by a run that has put a release in its place, and
\* then some other directory holds one.
KeptInv ==
    released => \/ Whole(output)
                \/ \E r \in Runs : pc[r] # "replaced" /\ Whole(backup[r])

ReleaseInv ==
    /\ pc \in [Runs -> Stages]
    /\ staging \in [Runs -> (SUBSET Files) \cup {None}]
    /\ backup \in [Runs -> (SUBSET Files) \cup {None}]
    /\ output \in (SUBSET Files) \cup {None}
    /\ Decent(output)
    /\ \A r \in Runs : StagingOk(r) /\ BackupOk(r)
    /\ KeptInv

-----------------------------------------------------------------------------
(***************************************************************************)
(* Releases                                                                *)
(***************************************************************************)

\* A release is a set of files, and no directory that is absent.
LEMMA ReleaseIsWhole ==
    ASSUME NEW r \in Runs \cup {Earlier}
    PROVE  /\ Release(r) \in SUBSET Files
           /\ Whole(Release(r))
<1>1. \A n \in Assets \cup {Checksums, Marker} : File(n, r) \in Files
    BY DEF File, Files
<1>2. Release(r) \in SUBSET Files
    BY <1>1 DEF Release, AssetsOf
<1>3. Release(r) # None
    BY <1>2, ReleaseOutputAssumption
<1> QED BY <1>2, <1>3 DEF Whole, Exists

\* A note can be put into any directory an output may be.
LEMMA NoteKeepsDecent ==
    ASSUME NEW directory \in (SUBSET Files) \cup {None}, Decent(directory)
    PROVE  LET noted == (IF Exists(directory) THEN directory ELSE {}) \cup {Note}
           IN  /\ noted \in SUBSET Files
               /\ Decent(noted)
               /\ Whole(directory) => Whole(noted)
<1> DEFINE noted == (IF Exists(directory) THEN directory ELSE {}) \cup {Note}
<1>1. Note \in Files
    BY DEF Note, File, Files
<1>2. noted \in SUBSET Files
    BY <1>1 DEF Exists
<1>3. noted # None
    BY <1>2, ReleaseOutputAssumption
<1>4. Whole(directory) => Whole(noted)
    <2>1. SUFFICES ASSUME Whole(directory) PROVE Whole(noted)
        OBVIOUS
    <2>2. PICK run \in Runs \cup {Earlier} :
              directory \in {Release(run), Release(run) \cup {Note}}
        BY <2>1 DEF Whole
    <2>3. noted = Release(run) \cup {Note}
        BY <2>1, <2>2 DEF Whole
    <2> QED BY <1>3, <2>3 DEF Whole, Exists
<1>5. ~Whole(directory) => noted = {Note}
    BY DEF Decent, Exists
<1> QED BY <1>2, <1>4, <1>5 DEF Decent

LEMMA ReleaseInvInit == ReleaseInit => ReleaseInv
<1> SUFFICES ASSUME ReleaseInit PROVE ReleaseInv
    OBVIOUS
<1>1. /\ Release(Earlier) \in SUBSET Files
      /\ Whole(Release(Earlier))
    BY ReleaseIsWhole
<1>2. {Note} \in SUBSET Files
    BY DEF Note, File, Files
<1>3. output \in (SUBSET Files) \cup {None} /\ Decent(output)
    BY <1>1, <1>2 DEF ReleaseInit, Decent
<1>4. pc \in [Runs -> Stages] /\ \A r \in Runs : pc[r] = "idle"
    BY DEF ReleaseInit, Stages
<1>5. \A r \in Runs : StagingOk(r) /\ BackupOk(r)
    BY <1>4 DEF StagingOk, BackupOk, ReleaseInit
<1>7. KeptInv
    BY DEF KeptInv, ReleaseInit
<1> QED BY <1>3, <1>4, <1>5, <1>7 DEF ReleaseInv, ReleaseInit

\* A step of one run keeps the invariant if it does for that run.
LEMMA OneRunSteps ==
    ASSUME ReleaseInv, NEW r \in Runs,
           NEW stage \in Stages, pc' = [pc EXCEPT ![r] = stage],
           NEW built \in (SUBSET Files) \cup {None},
           staging' = [staging EXCEPT ![r] = built],
           NEW moved \in (SUBSET Files) \cup {None},
           backup' = [backup EXCEPT ![r] = moved],
           output' \in (SUBSET Files) \cup {None},
           StagingOk(r)', BackupOk(r)', Decent(output)', KeptInv'
    PROVE  ReleaseInv'
<1>1. /\ pc' \in [Runs -> Stages]
      /\ staging' \in [Runs -> (SUBSET Files) \cup {None}]
      /\ backup' \in [Runs -> (SUBSET Files) \cup {None}]
    BY DEF ReleaseInv
<1>2. ASSUME NEW s \in Runs, s # r
      PROVE  StagingOk(s)' /\ BackupOk(s)'
    <2>1. pc'[s] = pc[s] /\ staging'[s] = staging[s] /\ backup'[s] = backup[s]
        BY <1>2 DEF ReleaseInv
    <2>2. StagingOk(s) /\ BackupOk(s)
        BY DEF ReleaseInv
    <2> QED BY <2>1, <2>2 DEF StagingOk, BackupOk, Decent, Whole, Exists
<1>3. \A s \in Runs : StagingOk(s)' /\ BackupOk(s)'
    BY <1>2
<1> QED BY <1>1, <1>3 DEF ReleaseInv

\* A release that was there before a step of run r is still there if the step
\* leaves the output alone and r has not come to replace it.
LEMMA StillKept ==
    ASSUME ReleaseInv, NEW r \in Runs,
           NEW stage \in Stages, pc' = [pc EXCEPT ![r] = stage],
           NEW moved, backup' = [backup EXCEPT ![r] = moved],
           UNCHANGED <<output, released>>,
           pc[r] = "replaced" \/ (moved = backup[r] /\ stage # "replaced")
    PROVE  KeptInv'
<1>1. CASE ~released \/ Whole(output)
    BY <1>1 DEF KeptInv, Whole, Exists
<1>2. CASE released /\ ~Whole(output)
    <2>1. PICK s \in Runs : pc[s] # "replaced" /\ Whole(backup[s])
        BY <1>2 DEF ReleaseInv, KeptInv
    <2>2. pc'[s] # "replaced" /\ backup'[s] = backup[s]
        BY <2>1 DEF ReleaseInv
    <2> QED BY <2>1, <2>2 DEF KeptInv, Whole, Exists
<1> QED BY <1>1, <1>2

\* The steps that build in the staging directory.
LEMMA BuildingKeepsInv ==
    ASSUME ReleaseInv, NEW r \in Runs,
           \/ Validate(r) \/ MakeStaging(r) \/ CopyAsset(r)
           \/ WriteChecksums(r) \/ WriteMarker(r)
    PROVE  ReleaseInv'
<1> USE DEF GoTo
<1>1. /\ UNCHANGED <<backup, output, released>>
      /\ pc[r] \in Building
      /\ pc' = [pc EXCEPT ![r] = pc'[r]]
      /\ pc'[r] \in {"validated", "building", "summed", "packed", "failed"}
    BY DEF ReleaseInv, Building, Validate, MakeStaging, CopyAsset,
           WriteChecksums, WriteMarker
<1>2. StagingOk(r) /\ BackupOk(r)
    BY DEF ReleaseInv
<1>3. AssetsOf(r) \cup {File(Checksums, r), File(Marker, r)} \in SUBSET Files
    BY ReleaseIsWhole DEF Release
<1>4. PICK built \in (SUBSET Files) \cup {None} :
          /\ staging' = [staging EXCEPT ![r] = built]
          /\ pc'[r] = "building" => built \in SUBSET AssetsOf(r)
          /\ pc'[r] = "summed" => built = AssetsOf(r) \cup {File(Checksums, r)}
          /\ pc'[r] = "packed" => built = Release(r)
    <2>1. CASE Validate(r)
        <3>1. staging' = [staging EXCEPT ![r] = staging[r]]
            BY <2>1 DEF Validate, ReleaseInv
        <3> QED BY <2>1, <3>1 DEF Validate, ReleaseInv
    <2>2. CASE MakeStaging(r)
        BY <2>2 DEF MakeStaging, ReleaseInv
    <2>3. CASE CopyAsset(r)
        <3>1. PICK asset \in AssetsOf(r) \ staging[r] :
                  staging' = [staging EXCEPT ![r] = @ \cup {asset}]
            BY <2>3 DEF CopyAsset
        <3>2. staging[r] \in SUBSET AssetsOf(r) /\ pc' = pc
            BY <2>3, <1>2 DEF CopyAsset, StagingOk
        <3>3. staging[r] \cup {asset} \in SUBSET AssetsOf(r)
            BY <3>1, <3>2
        <3> QED BY <2>3, <3>1, <3>2, <3>3, <1>3 DEF CopyAsset
    <2>4. CASE WriteChecksums(r)
        BY <2>4, <1>3 DEF WriteChecksums, ReleaseInv
    <2>5. CASE WriteMarker(r)
        <3>1. staging[r] \cup {File(Marker, r)} = Release(r)
            BY <2>5, <1>2 DEF WriteMarker, StagingOk, Release
        <3> QED BY <2>5, <3>1, <1>3 DEF WriteMarker, ReleaseInv, Release
    <2> QED BY <2>1, <2>2, <2>3, <2>4, <2>5
<1>5. backup' = [backup EXCEPT ![r] = backup[r]]
    BY <1>1 DEF ReleaseInv
<1>6. backup[r] = None
    BY <1>1, <1>2 DEF BackupOk
<1>7. StagingOk(r)' /\ BackupOk(r)'
    BY <1>1, <1>4, <1>5, <1>6 DEF StagingOk, BackupOk, Building, ReleaseInv
<1>8. Decent(output)'
    BY <1>1 DEF ReleaseInv, Decent, Whole, Exists
<1>9. pc'[r] \in Stages /\ pc'[r] # "replaced"
    BY <1>1 DEF Stages
<1>10. KeptInv'
    BY <1>1, <1>5, <1>9, StillKept
<1>11. output' \in (SUBSET Files) \cup {None}
    BY <1>1 DEF ReleaseInv
<1> QED BY <1>1, <1>4, <1>5, <1>6, <1>7, <1>8, <1>9, <1>10, <1>11, OneRunSteps

\* The steps of _publish_staging.
LEMMA PublishingKeepsInv ==
    ASSUME ReleaseInv, NEW r \in Runs,
           \/ CheckOwnership(r) \/ MoveAside(r) \/ ReplaceOutput(r)
           \/ ReplaceFails(r) \/ Restore(r) \/ RemoveBackup(r)
    PROVE  ReleaseInv'
<1> USE DEF GoTo
<1>1. StagingOk(r) /\ BackupOk(r) /\ Decent(output)
    BY DEF ReleaseInv
<1>2. CASE CheckOwnership(r) \/ ReplaceFails(r)
    <2>1. /\ UNCHANGED <<staging, backup, output, released>>
          /\ pc' = [pc EXCEPT ![r] = pc'[r]]
          /\ pc'[r] \in {"replacing", "restoring", "cleaning", "owned"}
          /\ pc[r] \in {"packed", "replacing"}
          /\ pc[r] = "replacing" => pc'[r] # "owned"
        BY <1>2 DEF CheckOwnership, ReplaceFails, ReleaseInv
    <2>2. StagingOk(r)' /\ BackupOk(r)' /\ Decent(output)'
        BY <1>1, <2>1 DEF StagingOk, BackupOk, Building, Decent, Whole, Exists
    <2>3. /\ staging' = [staging EXCEPT ![r] = staging[r]]
          /\ backup' = [backup EXCEPT ![r] = backup[r]]
          /\ pc'[r] \in Stages
        BY <2>1 DEF ReleaseInv, Stages
    <2>4. KeptInv'
        BY <2>1, <2>3, StillKept
    <2> QED BY <2>1, <2>2, <2>3, <2>4, OneRunSteps DEF ReleaseInv
<1>3. CASE MoveAside(r) /\ Exists(output)
    <2>1. /\ UNCHANGED <<staging, released>>
          /\ pc[r] = "owned"
          /\ pc' = [pc EXCEPT ![r] = "replacing"]
          /\ backup' = [backup EXCEPT ![r] = output]
          /\ output' = None
        BY <1>3 DEF MoveAside
    <2>2. StagingOk(r)' /\ BackupOk(r)' /\ Decent(output)'
        BY <1>1, <2>1 DEF StagingOk, BackupOk, Building, Decent, Whole, Exists,
                          ReleaseInv
    <2>3. KeptInv'
        <3>1. CASE ~released
            BY <2>1, <3>1 DEF KeptInv
        <3>2. CASE Whole(output)
            <4>1. Whole(backup[r])' /\ pc'[r] # "replaced"
                BY <2>1, <3>2 DEF ReleaseInv, Whole, Exists
            <4> QED BY <4>1 DEF KeptInv
        <3>3. CASE released /\ ~Whole(output)
            <4>1. PICK s \in Runs : pc[s] # "replaced" /\ Whole(backup[s])
                BY <3>3 DEF ReleaseInv, KeptInv
            <4>2. s # r
                BY <1>1, <2>1, <4>1 DEF BackupOk, Building, Whole, Exists
            <4>3. pc'[s] # "replaced" /\ backup'[s] = backup[s]
                BY <2>1, <4>1, <4>2 DEF ReleaseInv
            <4> QED BY <4>1, <4>3 DEF KeptInv, Whole, Exists
        <3> QED BY <3>1, <3>2, <3>3
    <2>4. staging' = [staging EXCEPT ![r] = staging[r]] /\ "replacing" \in Stages
        BY <2>1 DEF ReleaseInv, Stages
    <2> QED BY <2>1, <2>2, <2>3, <2>4, OneRunSteps DEF ReleaseInv
<1>4. CASE \/ MoveAside(r) /\ ~Exists(output)
           \/ Restore(r) /\ ~Free(output)
    <2>1. /\ UNCHANGED <<staging, backup, output, released>>
          /\ pc[r] \in {"owned", "restoring"}
          /\ pc' = [pc EXCEPT ![r] = pc'[r]]
          /\ pc'[r] = "cleaning"
        BY <1>4 DEF MoveAside, Restore, ReleaseInv
    <2>2. StagingOk(r)' /\ BackupOk(r)' /\ Decent(output)'
        BY <1>1, <2>1 DEF StagingOk, BackupOk, Building, Decent, Whole, Exists
    <2>3. /\ staging' = [staging EXCEPT ![r] = staging[r]]
          /\ backup' = [backup EXCEPT ![r] = backup[r]]
          /\ pc'[r] \in Stages
        BY <2>1 DEF ReleaseInv, Stages
    <2>4. KeptInv'
        BY <2>1, <2>3, StillKept
    <2> QED BY <2>1, <2>2, <2>3, <2>4, OneRunSteps DEF ReleaseInv
<1>5. CASE ReplaceOutput(r)
    <2>1. /\ UNCHANGED backup
          /\ staging' = [staging EXCEPT ![r] = None]
          /\ pc' = [pc EXCEPT ![r] = "replaced"]
          /\ output' = Release(r)
        BY <1>1, <1>5 DEF ReplaceOutput, StagingOk
    <2>2. /\ Release(r) \in SUBSET Files
          /\ Whole(Release(r))
        BY ReleaseIsWhole
    <2>3. Whole(output)'
        BY <2>1, <2>2 DEF Whole, Exists
    <2>4. StagingOk(r)' /\ BackupOk(r)' /\ Decent(output)'
        BY <2>1, <2>3 DEF StagingOk, BackupOk, Building, Decent, ReleaseInv
    <2>5. KeptInv'
        BY <2>3 DEF KeptInv
    <2>6. /\ backup' = [backup EXCEPT ![r] = backup[r]]
          /\ "replaced" \in Stages
        BY <2>1 DEF ReleaseInv, Stages
    <2> QED BY <2>1, <2>2, <2>4, <2>5, <2>6, OneRunSteps DEF ReleaseInv
<1>6. CASE Restore(r) /\ Free(output)
    <2>1. /\ UNCHANGED <<staging, released>>
          /\ pc[r] = "restoring"
          /\ pc' = [pc EXCEPT ![r] = "cleaning"]
          /\ backup' = [backup EXCEPT ![r] = None]
          /\ output' = backup[r]
        BY <1>6 DEF Restore
    <2>2. StagingOk(r)' /\ BackupOk(r)' /\ Decent(output)'
        BY <1>1, <2>1 DEF StagingOk, BackupOk, Building, Decent, Whole, Exists,
                          ReleaseInv
    <2>3. KeptInv'
        <3>1. CASE ~released
            BY <2>1, <3>1 DEF KeptInv
        <3>2. CASE released
            <4>1. ~Whole(output)
                <5>1. SUFFICES ASSUME Whole(output) PROVE FALSE
                    OBVIOUS
                <5>2. PICK run \in Runs \cup {Earlier} :
                          output \in {Release(run), Release(run) \cup {Note}}
                    BY <5>1 DEF Whole
                <5>3. output # {}
                    BY <5>2 DEF Release
                <5> QED BY <1>6, <5>1, <5>3 DEF Free, Whole
            <4>2. PICK s \in Runs : pc[s] # "replaced" /\ Whole(backup[s])
                BY <3>2, <4>1 DEF ReleaseInv, KeptInv
            <4>3. CASE s = r
                BY <2>1, <4>2, <4>3 DEF KeptInv, Whole, Exists
            <4>4. CASE s # r
                <5>1. pc'[s] # "replaced" /\ backup'[s] = backup[s]
                    BY <2>1, <4>2, <4>4 DEF ReleaseInv
                <5> QED BY <4>2, <5>1 DEF KeptInv, Whole, Exists
            <4> QED BY <4>3, <4>4
        <3> QED BY <3>1, <3>2
    <2>4. staging' = [staging EXCEPT ![r] = staging[r]] /\ "cleaning" \in Stages
        BY <2>1 DEF ReleaseInv, Stages
    <2> QED BY <2>1, <2>2, <2>3, <2>4, OneRunSteps DEF ReleaseInv
<1>7. CASE RemoveBackup(r)
    <2>1. /\ UNCHANGED <<staging, output, released>>
          /\ pc[r] = "replaced"
          /\ pc' = [pc EXCEPT ![r] = "published"]
          /\ backup' = [backup EXCEPT ![r] = None]
        BY <1>7 DEF RemoveBackup
    <2>2. StagingOk(r)' /\ BackupOk(r)' /\ Decent(output)'
        BY <1>1, <2>1 DEF StagingOk, BackupOk, Building, Decent, Whole, Exists,
                          ReleaseInv
    <2>3. staging' = [staging EXCEPT ![r] = staging[r]] /\ "published" \in Stages
        BY <2>1 DEF ReleaseInv, Stages
    <2>4. KeptInv'
        BY <2>1, <2>3, StillKept
    <2> QED BY <2>1, <2>2, <2>3, <2>4, OneRunSteps DEF ReleaseInv
<1>8. CASE MoveAside(r)
    BY <1>3, <1>4, <1>8
<1>9. CASE Restore(r)
    BY <1>4, <1>6, <1>9
<1> QED BY <1>2, <1>5, <1>7, <1>8, <1>9

\* Cleaning up, failing and dying.
LEMMA StoppingKeepsInv ==
    ASSUME ReleaseInv, NEW r \in Runs,
           CleanUp(r) \/ RunFails(r) \/ RunDies(r)
    PROVE  ReleaseInv'
<1> USE DEF GoTo
<1>1. StagingOk(r) /\ BackupOk(r)
    BY DEF ReleaseInv
<1>2. /\ UNCHANGED <<output, released>>
      /\ pc' = [pc EXCEPT ![r] = pc'[r]]
      /\ pc'[r] \in {"cleaning", "failed", "dead"}
    BY DEF CleanUp, RunFails, RunDies, ReleaseInv
<1>3. PICK built \in (SUBSET Files) \cup {None} :
          staging' = [staging EXCEPT ![r] = built]
    <2>1. CASE CleanUp(r)
        BY <2>1 DEF CleanUp
    <2>2. CASE staging' = staging
        <3>1. staging' = [staging EXCEPT ![r] = staging[r]]
            BY <2>2 DEF ReleaseInv
        <3> QED BY <3>1 DEF ReleaseInv
    <2>3. CASE \E rest \in PartOf(staging[r]) :
                   staging' = [staging EXCEPT ![r] = rest]
        BY <2>3 DEF PartOf, ReleaseInv, Exists
    <2> QED BY <2>1, <2>2, <2>3 DEF RunFails, RunDies, LeaveHalfRemoved
<1>4. PICK moved \in (SUBSET Files) \cup {None} :
          /\ backup' = [backup EXCEPT ![r] = moved]
          /\ pc[r] = "replaced" \/ moved = backup[r]
    <2>1. CASE backup' = backup
        <3>1. backup' = [backup EXCEPT ![r] = backup[r]]
            BY <2>1 DEF ReleaseInv
        <3> QED BY <3>1 DEF ReleaseInv
    <2>2. CASE pc[r] = "replaced" /\ \E rest \in PartOf(backup[r]) :
                   backup' = [backup EXCEPT ![r] = rest]
        BY <2>2 DEF PartOf, ReleaseInv, Exists
    <2> QED BY <2>1, <2>2 DEF CleanUp, RunFails, RunDies, LeaveHalfRemoved
<1>5. StagingOk(r)' /\ BackupOk(r)'
    BY <1>2 DEF StagingOk, BackupOk, Building
<1>6. Decent(output)' /\ output' \in (SUBSET Files) \cup {None}
    BY <1>2 DEF ReleaseInv, Decent, Whole, Exists
<1>7. pc'[r] \in Stages /\ pc'[r] # "replaced"
    BY <1>2 DEF Stages
<1>8. KeptInv'
    BY <1>2, <1>4, <1>7, StillKept
<1> QED BY <1>2, <1>3, <1>4, <1>5, <1>6, <1>7, <1>8, OneRunSteps

\* The steps of the others, and steps that change nothing.
LEMMA OthersKeepInv ==
    ASSUME ReleaseInv, PutNotes \/ CheckStep \/ UNCHANGED releaseVars
    PROVE  ReleaseInv'
<1>1. UNCHANGED <<pc, staging, backup, released>>
    BY DEF PutNotes, CheckStep, ListAssets, ReadManifest, CompareDigest,
           PassAssets, publishVars, releaseVars
<1>2. \/ output' = output
      \/ output' = (IF Exists(output) THEN output ELSE {}) \cup {Note}
    BY DEF PutNotes, CheckStep, ListAssets, ReadManifest, CompareDigest,
           PassAssets, publishVars, releaseVars
<1>3. /\ output' \in (SUBSET Files) \cup {None}
      /\ Decent(output')
      /\ Whole(output) => Whole(output')
    BY <1>2, NoteKeepsDecent DEF ReleaseInv
<1>4. Decent(output)' /\ (Whole(output) => Whole(output)')
    BY <1>3 DEF Decent, Whole, Exists
<1>5. \A r \in Runs : StagingOk(r)' /\ BackupOk(r)'
    BY <1>1 DEF ReleaseInv, StagingOk, BackupOk, Decent, Whole, Exists
<1>6. KeptInv'
    BY <1>1, <1>4 DEF ReleaseInv, KeptInv, Whole, Exists
<1> QED BY <1>1, <1>3, <1>4, <1>5, <1>6 DEF ReleaseInv

LEMMA ReleaseInvStep == ReleaseInv /\ [ReleaseNext]_releaseVars => ReleaseInv'
<1> SUFFICES ASSUME ReleaseInv, [ReleaseNext]_releaseVars PROVE ReleaseInv'
    OBVIOUS
<1>1. ASSUME NEW r \in Runs, PackageStep(r) PROVE ReleaseInv'
    BY <1>1, BuildingKeepsInv, PublishingKeepsInv, StoppingKeepsInv
    DEF PackageStep
<1>2. CASE PutNotes \/ CheckStep \/ UNCHANGED releaseVars
    BY <1>2, OthersKeepInv
<1> QED BY <1>1, <1>2 DEF ReleaseNext

LEMMA ReleaseInvariant == ReleaseSpec => []ReleaseInv
BY ReleaseInvInit, ReleaseInvStep, PTL DEF ReleaseSpec

\* However runs of the packager meet, fail or die, the output is absent, empty,
\* someone's notes or a whole release, and once there has been a release a
\* whole one is on disk.
THEOREM ReleasesSurvive == ReleaseSpec => []ReleasesStayWhole
<1>1. ReleaseInv => ReleasesStayWhole
    BY DEF ReleaseInv, Decent, KeptInv, ReleasesStayWhole
<1> QED BY <1>1, ReleaseInvariant, PTL

-----------------------------------------------------------------------------
(***************************************************************************)
(* Notes                                                                   *)
(***************************************************************************)

\* Notes put into a directory without the marker are in no backup, the
\* directory has not got the marker since, and no run is about to move it.
NotesInv ==
    ~unguarded =>
        /\ Exists(output) /\ Note \in output =>
               /\ Marker \notin Names(output)
               /\ \A r \in Runs : pc[r] # "owned"
        /\ \A r \in Runs : Exists(backup[r]) => Note \notin backup[r]

\* The packager makes no notes.
LEMMA NoteIsForeign ==
    ASSUME NEW r
    PROVE  Note \notin Release(r) /\ Note.name # Marker
BY ReleaseOutputAssumption
DEF Note, Release, AssetsOf, File, Notes, Checksums, Marker

LEMMA NotesInvInit == ReleaseInit => NotesInv
<1> SUFFICES ASSUME ReleaseInit PROVE NotesInv
    OBVIOUS
<1>1. Exists(output) /\ Note \in output => output = {Note}
    BY NoteIsForeign DEF ReleaseInit, Exists
<1>2. \A r \in Runs : pc[r] = "idle" /\ backup[r] = None
    BY DEF ReleaseInit
<1> QED BY <1>1, <1>2, NoteIsForeign DEF NotesInv, Names, Exists

\* A step that leaves the output alone.
LEMMA QuietKeepsNotes ==
    ASSUME ReleaseInv, NotesInv, UNCHANGED <<output, unguarded>>, NEW r \in Runs,
           NEW stage, pc' = [pc EXCEPT ![r] = stage],
           stage = "owned" => pc[r] = "packed" /\ ~Unowned(output),
           NEW moved, backup' = [backup EXCEPT ![r] = moved],
           Exists(moved) => Exists(backup[r]) /\ moved \subseteq backup[r]
    PROVE  NotesInv'
<1> SUFFICES ASSUME ~unguarded PROVE NotesInv'
    BY DEF NotesInv
<1>1. ASSUME NEW s \in Runs, Exists(backup'[s])
      PROVE  Note \notin backup'[s]
    <2>1. CASE s = r
        BY <1>1, <2>1 DEF NotesInv, ReleaseInv
    <2>2. CASE s # r
        BY <1>1, <2>2 DEF NotesInv, ReleaseInv
    <2> QED BY <2>1, <2>2
<1>2. ASSUME Exists(output), Note \in output
      PROVE  /\ Marker \notin Names(output)
             /\ \A s \in Runs : pc'[s] # "owned"
    <2>1. Marker \notin Names(output) /\ \A s \in Runs : pc[s] # "owned"
        BY <1>2 DEF NotesInv
    <2>2. stage # "owned"
        BY <1>2, <2>1 DEF Unowned
    <2> QED BY <2>1, <2>2 DEF ReleaseInv
<1> QED BY <1>1, <1>2 DEF NotesInv, Exists, Names

LEMMA NotesInvStep ==
    ReleaseInv /\ NotesInv /\ [ReleaseNext]_releaseVars => NotesInv'
<1> SUFFICES ASSUME ReleaseInv, NotesInv, [ReleaseNext]_releaseVars
             PROVE  NotesInv'
    OBVIOUS
<1> USE DEF GoTo
<1>1. ASSUME NEW r \in Runs, PackageStep(r),
             ~(MoveAside(r) \/ ReplaceOutput(r) \/ Restore(r))
      PROVE  NotesInv'
    <2>1. UNCHANGED <<output, unguarded>>
        BY <1>1 DEF PackageStep, Validate, MakeStaging, CopyAsset, WriteChecksums,
                    WriteMarker, CheckOwnership, ReplaceFails, RemoveBackup,
                    CleanUp, RunFails, RunDies
    <2>2. /\ pc' = [pc EXCEPT ![r] = pc'[r]]
          /\ pc'[r] = "owned" => pc[r] = "packed" /\ ~Unowned(output)
        <3>1. CASE CheckOwnership(r)
            BY <3>1 DEF CheckOwnership, ReleaseInv
        <3>2. CASE CopyAsset(r)
            BY <3>2 DEF CopyAsset, ReleaseInv
        <3>3. CASE ~CheckOwnership(r) /\ ~CopyAsset(r)
            BY <1>1, <3>3 DEF PackageStep, Validate, MakeStaging, WriteChecksums,
                    WriteMarker, ReplaceFails, RemoveBackup, CleanUp, RunFails,
                    RunDies, ReleaseInv
        <3> QED BY <3>1, <3>2, <3>3
    <2>3. PICK moved :
              /\ backup' = [backup EXCEPT ![r] = moved]
              /\ Exists(moved) => Exists(backup[r]) /\ moved \subseteq backup[r]
        <3>1. CASE backup' = backup
            <4>1. backup' = [backup EXCEPT ![r] = backup[r]]
                BY <3>1 DEF ReleaseInv
            <4> QED BY <4>1
        <3>2. CASE RemoveBackup(r)
            BY <3>2 DEF RemoveBackup, Exists
        <3>3. CASE \E rest \in PartOf(backup[r]) :
                       backup' = [backup EXCEPT ![r] = rest]
            BY <3>3 DEF PartOf, Exists
        <3> QED BY <1>1, <3>1, <3>2, <3>3
                DEF PackageStep, Validate, MakeStaging, CopyAsset, WriteChecksums,
                    WriteMarker, CheckOwnership, ReplaceFails, CleanUp, RunFails,
                    RunDies, LeaveHalfRemoved
    <2> QED BY <2>1, <2>2, <2>3, QuietKeepsNotes
<1>2. ASSUME NEW r \in Runs, MoveAside(r)
      PROVE  NotesInv'
    <2>1. CASE ~Exists(output)
        <3>1. /\ UNCHANGED <<output, backup, unguarded>>
              /\ pc' = [pc EXCEPT ![r] = "cleaning"]
            BY <1>2, <2>1 DEF MoveAside
        <3> QED BY <2>1, <3>1 DEF NotesInv, Exists
    <2>2. CASE Exists(output)
        <3>1. /\ pc[r] = "owned" /\ output' = None
              /\ backup' = [backup EXCEPT ![r] = output]
              /\ UNCHANGED unguarded
            BY <1>2, <2>2 DEF MoveAside
        <3>2. ~unguarded => Note \notin output
            BY <2>2, <3>1 DEF NotesInv
        <3> QED BY <3>1, <3>2 DEF NotesInv, ReleaseInv, Exists
    <2> QED BY <2>1, <2>2
<1>3. ASSUME NEW r \in Runs, ReplaceOutput(r)
      PROVE  NotesInv'
    <2>1. UNCHANGED <<backup, unguarded>> /\ output' = Release(r)
        BY <1>3 DEF ReplaceOutput, ReleaseInv, StagingOk
    <2> QED BY <2>1, NoteIsForeign DEF NotesInv, Exists
<1>4. ASSUME NEW r \in Runs, Restore(r)
      PROVE  NotesInv'
    <2>1. CASE Free(output)
        <3>1. /\ output' = backup[r] /\ UNCHANGED unguarded
              /\ backup' = [backup EXCEPT ![r] = None]
            BY <1>4, <2>1 DEF Restore
        <3> QED BY <3>1 DEF NotesInv, ReleaseInv, Exists
    <2>2. CASE ~Free(output)
        <3>1. /\ UNCHANGED <<output, backup, unguarded>>
              /\ pc' = [pc EXCEPT ![r] = "cleaning"]
            BY <1>4, <2>2 DEF Restore
        <3>2. backup' = [backup EXCEPT ![r] = backup[r]]
            BY <3>1 DEF ReleaseInv
        <3> QED BY <3>1, <3>2, QuietKeepsNotes
    <2> QED BY <2>1, <2>2
<1>5. CASE PutNotes
    <2>1. /\ UNCHANGED <<pc, backup>>
          /\ output' = (IF Exists(output) THEN output ELSE {}) \cup {Note}
          /\ ~unguarded' => /\ ~unguarded
                            /\ Exists(output) => Marker \notin Names(output)
                            /\ \A r \in Runs : pc[r] # "owned"
        BY <1>5 DEF PutNotes
    <2>2. ~unguarded' => Marker \notin Names(output')
        BY <2>1, NoteIsForeign DEF Names
    <2>3. ~unguarded' => Marker \notin Names(output)'
        BY <2>2 DEF Names
    <2> QED BY <2>1, <2>3 DEF NotesInv, Exists
<1>6. CASE CheckStep \/ UNCHANGED releaseVars
    <2>1. UNCHANGED <<pc, backup, output, unguarded>>
        BY <1>6 DEF CheckStep, ListAssets, ReadManifest, CompareDigest, PassAssets,
                    publishVars, releaseVars
    <2> QED BY <2>1 DEF NotesInv, Exists, Names
<1> QED BY <1>1, <1>2, <1>3, <1>4, <1>5, <1>6 DEF ReleaseNext

LEMMA NotesInvariant == ReleaseSpec => [](ReleaseInv /\ NotesInv)
<1>1. ReleaseInit => ReleaseInv /\ NotesInv
    BY ReleaseInvInit, NotesInvInit
<1>2. (ReleaseInv /\ NotesInv) /\ [ReleaseNext]_releaseVars
          => (ReleaseInv /\ NotesInv)'
    BY ReleaseInvStep, NotesInvStep
<1> QED BY <1>1, <1>2, PTL DEF ReleaseSpec

\* No run ever takes notes away from a directory that was not the packager's
\* when they were put there, however stale the run's own look at it.
THEOREM NotesSurvive == ReleaseSpec => NotesAreKept
<1> DEFINE Kept == Exists(output) /\ Note \in output /\ ~unguarded
                       => Exists(output') /\ Note \in output'
<1>1. NotesInv /\ [ReleaseNext]_releaseVars => [Kept]_releaseVars
    <2> SUFFICES ASSUME NotesInv, ReleaseNext, Exists(output), Note \in output,
                        ~unguarded
                 PROVE  Exists(output') /\ Note \in output'
        OBVIOUS
    <2>1. \A r \in Runs : pc[r] # "owned"
        BY DEF NotesInv
    <2>2. ~Free(output)
        BY DEF Free
    <2>3. CASE output' = output
        BY <2>3
    <2>4. ASSUME NEW r \in Runs, PackageStep(r) PROVE output' = output
        BY <2>1, <2>2, <2>4
        DEF PackageStep, Validate, MakeStaging, CopyAsset, WriteChecksums,
            WriteMarker, CheckOwnership, MoveAside, ReplaceOutput, ReplaceFails,
            Restore, RemoveBackup, CleanUp, RunFails, RunDies
    <2>5. CASE CheckStep
        BY <2>5 DEF CheckStep, ListAssets, ReadManifest, CompareDigest, PassAssets,
                    publishVars
    <2>6. CASE PutNotes
        BY <2>6 DEF PutNotes
    <2> QED BY <2>3, <2>4, <2>5, <2>6 DEF ReleaseNext
<1> QED BY <1>1, NotesInvariant, PTL DEF ReleaseSpec, NotesAreKept

-----------------------------------------------------------------------------
(***************************************************************************)
(* The check                                                               *)
(***************************************************************************)

\* What the check has read, from its manifest on, is of the manifest's run.
CheckInv ==
    /\ check \in [stage : {"idle", "listed", "reading", "passed", "refused"},
                  listed : SUBSET (Assets \cup {Checksums, Marker, Notes}),
                  manifest : Runs \cup {Earlier, None},
                  read : SUBSET Files]
    /\ check.stage \in {"idle", "listed"} => check.read = {}
    /\ check.stage \in {"reading", "passed"} =>
           /\ check.listed \ {Checksums} = Assets
           /\ check.read \subseteq AssetsOf(check.manifest)
    /\ check.stage = "passed" =>
           check.listed = {Checksums} \cup Names(check.read)

\* A directory that may be the output has one file of the name of an asset.
LEMMA OneFilePerAsset ==
    ASSUME NEW directory, Decent(directory), Exists(directory),
           NEW name \in Assets, NEW run, File(name, run) \in directory,
           NEW file \in directory, file.name = name
    PROVE  file = File(name, run)
<1>1. name # Notes /\ name # Checksums /\ name # Marker
    BY ReleaseOutputAssumption
<1>2. File(name, run) # Note
    BY <1>1 DEF File, Note
<1>3. PICK maker \in Runs \cup {Earlier} :
          directory \in {Release(maker), Release(maker) \cup {Note}}
    BY <1>2 DEF Decent, Whole, Exists
<1>4. ASSUME NEW f \in directory, f.name = name
      PROVE  f = File(name, maker)
    <2>1. f # Note /\ f # File(Checksums, maker) /\ f # File(Marker, maker)
        BY <1>1, <1>4 DEF File, Note
    <2>2. f \in AssetsOf(maker)
        BY <1>3, <1>4, <2>1 DEF Release
    <2> QED BY <1>4, <2>2 DEF AssetsOf, File
<1>5. File(name, run).name = name
    BY DEF File
<1> QED BY <1>4, <1>5

LEMMA CheckInvStep ==
    ReleaseInv /\ CheckInv /\ [ReleaseNext]_releaseVars => CheckInv'
<1> SUFFICES ASSUME ReleaseInv, CheckInv, [ReleaseNext]_releaseVars
             PROVE  CheckInv'
    OBVIOUS
<1>1. CASE UNCHANGED check
    BY <1>1 DEF CheckInv, AssetsOf, Names
<1>2. CASE ListAssets
    <2>1. Exists(output) => Names(output) \subseteq Assets \cup {Checksums, Marker, Notes}
        BY DEF ReleaseInv, Names, Files, Exists
    <2>2. \/ check' = [check EXCEPT !.stage = "refused"]
          \/ /\ Exists(output)
             /\ check' = [check EXCEPT !.stage = "listed",
                                       !.listed = Names(output) \ {Marker}]
        BY <1>2 DEF ListAssets
    <2>3. check.read = {} /\ check.stage = "idle"
        BY <1>2 DEF ListAssets, CheckInv
    <2>4. CASE check' = [check EXCEPT !.stage = "refused"]
        BY <2>3, <2>4 DEF CheckInv
    <2>5. CASE /\ Exists(output)
               /\ check' = [check EXCEPT !.stage = "listed",
                                         !.listed = Names(output) \ {Marker}]
        <3>1. Names(output) \ {Marker} \in SUBSET (Assets \cup {Checksums, Marker, Notes})
            BY <2>1, <2>5
        <3>2. check'.stage = "listed" /\ check'.read = {}
            BY <2>3, <2>5 DEF CheckInv
        <3> QED BY <2>5, <3>1, <3>2 DEF CheckInv
    <2> QED BY <2>2, <2>4, <2>5
<1>3. CASE ReadManifest
    <2>1. check.stage = "listed" /\ check.read = {}
        BY <1>3 DEF ReadManifest, CheckInv
    <2> QED BY <1>3, <2>1 DEF ReadManifest, CheckInv
<1>4. ASSUME NEW name \in Assets, CompareDigest(name)
      PROVE  CheckInv'
    <2>1. CASE check' = [check EXCEPT !.stage = "refused"]
        BY <2>1 DEF CheckInv
    <2>2. CASE DigestAgrees(File(name, check.manifest))
        <3> DEFINE found == {f \in output : f.name = name}
        <3>1. /\ check.stage = "reading"
              /\ check' = [check EXCEPT !.read = @ \cup found]
              /\ Exists(output) /\ File(name, check.manifest) \in output
            BY <1>4, <2>2 DEF CompareDigest, DigestAgrees
        <3>2. found \subseteq {File(name, check.manifest)}
            BY <3>1, OneFilePerAsset DEF ReleaseInv
        <3>3. found \subseteq AssetsOf(check.manifest)
            BY <3>2 DEF AssetsOf
        <3>4. found \in SUBSET Files
            BY <3>1 DEF ReleaseInv, Exists
        <3>5. /\ check'.stage = "reading" /\ check'.manifest = check.manifest
              /\ check'.listed = check.listed /\ check'.read = check.read \cup found
            BY <3>1 DEF CheckInv
        <3>6. check' \in [stage : {"idle", "listed", "reading", "passed", "refused"},
                  listed : SUBSET (Assets \cup {Checksums, Marker, Notes}),
                  manifest : Runs \cup {Earlier, None},
                  read : SUBSET Files]
            BY <3>1, <3>4 DEF CheckInv
        <3> QED BY <3>1, <3>3, <3>5, <3>6 DEF CheckInv, AssetsOf
    <2> QED BY <1>4, <2>1, <2>2 DEF CompareDigest
<1>5. CASE PassAssets
    <2>1. /\ check' = [check EXCEPT !.stage = "passed"]
          /\ check.stage = "reading"
          /\ check.listed = {Checksums} \cup Names(check.read)
        BY <1>5 DEF PassAssets
    <2> QED BY <2>1 DEF CheckInv, Names, AssetsOf
<1> QED BY <1>1, <1>2, <1>3, <1>4, <1>5
        DEF ReleaseNext, CheckStep, PackageStep, PutNotes, releaseVars,
            Validate, MakeStaging, CopyAsset, WriteChecksums,
            WriteMarker, CheckOwnership, MoveAside, ReplaceOutput, ReplaceFails,
            Restore, RemoveBackup, CleanUp, RunFails, RunDies

\* An asset check that passes has compared the assets of one run, all of them
\* and no others, however often the directory was exchanged under it.
THEOREM CheckPassesTheWholeRelease == ReleaseSpec => []CheckPassesOneRelease
<1>1. ReleaseInit => CheckInv
    BY DEF ReleaseInit, CheckInv
<1>2. CheckInv => CheckPassesOneRelease
    <2> SUFFICES ASSUME CheckInv, check.stage = "passed"
                 PROVE  check.read = AssetsOf(check.manifest)
        BY DEF CheckPassesOneRelease
    <2>1. ASSUME NEW name \in Assets
          PROVE  File(name, check.manifest) \in check.read
        <3>1. name \in Names(check.read)
            BY ReleaseOutputAssumption DEF CheckInv
        <3>2. PICK f \in check.read : f.name = name
            BY <3>1 DEF Names
        <3> QED BY <3>2 DEF CheckInv, AssetsOf, File
    <2> QED BY <2>1 DEF CheckInv, AssetsOf
<1>3. CheckInv /\ ReleaseInv /\ [ReleaseNext]_releaseVars => CheckInv'
    BY CheckInvStep
<1> QED BY <1>1, <1>2, <1>3, ReleaseInvariant, PTL DEF ReleaseSpec
=============================================================================
