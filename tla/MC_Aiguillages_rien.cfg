SPECIFICATION FairSpec
CONSTANTS
    Aiguillages <- UnAiguillage
    AigInitial <- MCAigInitial
    MaxActionneurs = 1
    Attente = "rien"
    MaxOrdres = 2
PROPERTIES
    ToutFinit
CHECK_DEADLOCK FALSE
