SPECIFICATION Spec
CONSTANTS
    Postes <- MCPostes
    Produits <- MCProduits
    AjoutsDuNet <- MCAjouts
    Un = TRUE
    Cadence = FALSE
    MaxMenu = 1
INVARIANTS
    PasPlusDeSorties
CHECK_DEADLOCK FALSE
