SPECIFICATION FairSpec
CONSTANTS
    NB_CUBE = 2
    Navettes = {}
    AucuneNavette = "66"
    numero_poste <- MCNumeroPoste
    num_robot = 2
    CubesInitiaux <- CubesPostes
    PlacesInitiales <- PlacesVides
    Programmes <- Imprudents
    Compatibles <- UnALaFois
    Prudent = FALSE
    MaxBas = 1
    MaxSortie = 1
PROPERTIES
    OrdreTermine
