SPECIFICATION Spec
CONSTANTS
 Versions = {v1, v2}
 Base = v0
 Updaters = {u1, u2}
 None = None
SYMMETRY Symmetry
INVARIANTS CurrentIsComplete ReportedIsInstalled
 
