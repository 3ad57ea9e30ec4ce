SPECIFICATION Spec
CONSTANTS
    NB_CUBE = 2
    Navettes <- MCNavettes
    AucuneNavette = "66"
    numero_poste <- MCNumeroPoste
    num_robot = 2
    CubesInitiaux <- MCCubes
    PlacesInitiales <- MCPlaces
    Programmes <- Petri
    Compatibles <- EvacuerPendantTache
    Prudent = TRUE
    MaxBas = 1
    MaxSortie = 2
INVARIANTS
    AttenteServie
