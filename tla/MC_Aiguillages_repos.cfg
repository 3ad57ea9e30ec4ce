SPECIFICATION FairSpec
CONSTANTS
    Aiguillages <- MCAiguillages
    AigInitial <- MCAigInitial
    MaxActionneurs = 1
    Attente = "repos"
    MaxOrdres = 2
INVARIANTS
    TypeOK
    BougeDeverrouille
    VerrouilleAuRepos
    DernierOrdre
PROPERTIES
    ImplementePosition
CHECK_DEADLOCK FALSE
