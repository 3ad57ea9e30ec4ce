SPECIFICATION FairSpec
CONSTANTS
    Troncons <- MCTroncons
    Aiguillages <- MCAiguillages
    Navettes <- MCNavettes
    id_aiguillage <- MCIdAiguillage
    successeur_droite <- MCDroite
    successeur_gauche <- MCGauche
    FileInitiale <- MCFileInitiale
    TronconsPoste <- MCTronconsPoste
    AigInitial <- MCAigInitial
    Commandes <- MCCommandes
    Cadence = TRUE
    Discipline = TRUE
INVARIANTS
    TypeOK
    SuiviExact
    PasDeFaussePerte
PROPERTIES
    ServiceNommeLaNavette
    DepartTraite
