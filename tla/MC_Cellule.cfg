SPECIFICATION Spec
CONSTANTS
    Troncons <- TronconsCellule
    Aiguillages <- AiguillagesCellule
    Navettes <- NavettesCellule
    id_aiguillage <- IdAiguillageCellule
    successeur_droite <- DroiteCellule
    successeur_gauche <- GaucheCellule
    FileInitiale <- FilesCellule
    TronconsPoste <- SansPoste
    AigInitial <- AigCellule
    Commandes <- CommandesCellule
    Cadence = TRUE
    Discipline = TRUE
INVARIANTS
    ToutAccessible
PROPERTIES
    PlacesSuivies
