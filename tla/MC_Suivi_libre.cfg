SPECIFICATION Spec
CONSTANTS
    Troncons <- MCTroncons
    Aiguillages <- MCAiguillages
    Navettes <- MCNavettes
    id_aiguillage <- MCIdAiguillage
    successeur_droite <- MCDroite
    successeur_gauche <- MCGauche
    FileInitiale <- MCFileInitiale
    TronconsPoste <- SansPoste
    AigInitial <- MCAigInitial
    Commandes <- CommandesLibre
    Cadence = FALSE
    Discipline = FALSE
INVARIANTS
    UneSeuleFile
    PerteSignalee
PROPERTIES
    ImplementeLieux
