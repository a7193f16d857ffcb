SPECIFICATION FairSpec
CONSTANTS
 Servers = {a,b}
 Gens = {g1,g2}
 AutoSelect = AutoSelect
 None = None
INVARIANTS  Settled
PROPERTIES  FlowEnds DeadCoreNoticed 
