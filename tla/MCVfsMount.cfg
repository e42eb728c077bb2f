SPECIFICATION FairSpec
CONSTANTS
    Tasks = {t1, t2}
    Ctxs = {c1, c2}
    Confs <- OneConf
    MaxFiles = 2
    Dirs = {d1}
    None = None
    Quiesced = TRUE
INVARIANTS TypeOK CountsExact SlotsStable
PROPERTIES EveryCallReturns
