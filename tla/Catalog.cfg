SPECIFICATION Spec
CONSTANTS
 Subs = {a, b}
 Nodes = {n1, n2}
 Bodies = {{n1}, {n1, n2}}
 Ids = {i1, i2, i3, i4, i5, i6}
 Refreshes = {r1, r2}
 Local = Local
 AutoSelect = AutoSelect
 MaxRequests = 3
 MaxCrashes = 1
SYMMETRY Symmetry
INVARIANTS DiskFollows  
PROPERTIES  FetchedIsExact MetadataSurvives
CHECK_DEADLOCK FALSE
