SPECIFICATION Spec
CONSTANTS
    Tasks = {t1, t2}
    Ctxs = {c1}
    Confs <- OneConf
    MaxFiles = 1
    Dirs = {d1}
    None = None
    Quiesced = FALSE
SYMMETRY Symmetry
PROPERTIES UnregistersClosed
