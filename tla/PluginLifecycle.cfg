CONSTANTS
    p = p
    q = q
    NoPlugin = NoPlugin
    Plugins = {p, q}
    Enriched = {p}
    MaxClicks = 1
SPECIFICATION FairSpec
 
PROPERTIES WorkingKept Settles
CHECK_DEADLOCK FALSE
