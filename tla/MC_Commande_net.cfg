SPECIFICATION FairSpec
CONSTANTS
    Troncons <- TronconsCellule
    Aiguillages <- AiguillagesCellule
    Navettes <- MCNavettes
    id_aiguillage <- IdAiguillageCellule
    successeur_droite <- DroiteCellule
    successeur_gauche <- GaucheCellule
    FileInitiale <- MCFiles
    TronconsPoste <- MCPostes
    AigInitial <- MCAigInitial
    Allure = 1
    MaxPauses = 1
INVARIANTS
    TypeOK
    MarquageSain
    AiguillagePret
    RisquesConnus
    SansErreur
    VerdictDuNet
PROPERTIES
    OrdresPrudents
    AiguillageAuRepos
    PetriTermine
