SPECIFICATION Spec
CONSTANTS
 Servers = {a,b}
 Gens = {g1,g2}
 AutoSelect = AutoSelect
 None = None
PROPERTY RecoveryStandsDown
