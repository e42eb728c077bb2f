SPECIFICATION Spec
CONSTANTS
    Tasks = {t1, t2, t3}
    Ctxs = {c1, c2}
    Confs <- ClashingConfs
    MaxFiles = 1
    Dirs = {d1}
    None = None
    Quiesced = TRUE
SYMMETRY Symmetry
INVARIANTS MutualExclusion NoUseAfterFree RemovesAlone RegistryConsistent
PROPERTIES UnregistersClosed
