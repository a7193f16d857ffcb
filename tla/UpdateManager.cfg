SPECIFICATION FairSpec
CONSTANTS
 Releases = {r1, r2}
 Ops = {o1, o2}
 None = None
INVARIANTS BusyIsWorked DismissedStaysHidden
PROPERTIES BusyEnds
