\* Runs of the packager that overlap, fail and die beside a check of the assets.
SPECIFICATION ReleaseSpec
CONSTANTS
    Runs = {r1, r2}
    Earlier = earlier
    Assets = {"wheel", "sdist"}
    None = None
SYMMETRY Symmetry
CHECK_DEADLOCK FALSE
INVARIANTS
    ReleasesStayWhole
    CheckPassesOneRelease
PROPERTIES
    NotesAreKept
