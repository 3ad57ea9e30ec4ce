SPECIFICATION FairSpec
CONSTANTS
    Postes <- MCPostes
    Produits <- MCProduits
    AjoutsDuNet <- MCAjouts
    Un = TRUE
    Cadence = TRUE
    MaxMenu = 1
INVARIANTS
    TypeOK
    EcrasementSignale
    MarquesSuivies
    JournalExact
PROPERTIES
    ToutAjoutFinit
CHECK_DEADLOCK FALSE
