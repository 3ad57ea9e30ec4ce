SPECIFICATION FairSpec
CONSTANTS
    NB_CUBE = 2
    Navettes <- MCNavettes
    AucuneNavette = "66"
    numero_poste <- MCNumeroPoste
    num_robot = 2
    CubesInitiaux <- MCCubes
    PlacesInitiales <- MCPlaces
    Programmes <- PiecesOuBras
    Compatibles <- UnALaFois
    Prudent = TRUE
    MaxBas = 1
    MaxSortie = 2
INVARIANTS
    TypeOK
    ReponsePourLaQuestion
    AttenteServie
    BrasSurPlace
    ProduitsConserves
    CubesCoherents
    TacheFinieExacte
    FinDeplacerExacte
PROPERTIES
    OrdreTermine
