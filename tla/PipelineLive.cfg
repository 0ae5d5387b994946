SPECIFICATION Spec
CONSTANTS
    b1 = b1
    g1 = g1  g2 = g2  g3 = g3
    gw1 = gw1
PROPERTIES
    WaitersWake
    
