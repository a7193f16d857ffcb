SPECIFICATION Spec
CONSTANTS
 Subs = {a}
 Nodes = {n1}
 Bodies = {{n1}}
 Ids = {i1, i2, i3, i4, i5, i6}
 Refreshes = {r1, r2}
 Local = Local
 AutoSelect = AutoSelect
 MaxRequests = 3
 MaxCrashes = 0
PROPERTIES SkippedKeepServers
CHECK_DEADLOCK FALSE
