SPECIFICATION Spec
CONSTANTS
    Aiguillages <- UnAiguillage
    AigInitial <- MCAigInitial
    MaxActionneurs = 1
    Attente = "butee"
    MaxOrdres = 3
INVARIANT
    DernierOrdre
CHECK_DEADLOCK FALSE
