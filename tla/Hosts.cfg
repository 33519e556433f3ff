CHECK_DEADLOCK FALSE
CONSTANTS
    Commands = {p1, p2}
    Foreign = {localhost, nas}
    MaxEdits = 1
    juiceShop = juiceShop
    webGoat = webGoat
    NameOrder <- Catalogue
SPECIFICATION Spec
SYMMETRY Symmetric
INVARIANTS
    RoundTrip
    HelperAgrees
PROPERTIES
    AppliesWhatWasConfirmed
    UnrelatedLinesKept
