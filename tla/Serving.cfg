SYMMETRY AdminSymmetry
SPECIFICATION Spec
CONSTANTS
    a = a
    b = b
    Ids = {a, b}
    Dirs = {1, 2}
    Manifests <- MCManifests
    Admins = {p1, p2}
    Callers = {c1}
    MaxDeploys = 2
INVARIANTS
    TypeOK
    QuietReloadServesDisk
    JobsAreNeverAhead
PROPERTIES
    NoStepBack
    UntouchedIsFound
