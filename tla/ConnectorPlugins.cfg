SPECIFICATION Spec
INVARIANT UsableWhenCalled
 
CONSTANTS
    Order <- MCOrder
    Ports = {8080, 9191}
    DefaultPort = 9191
