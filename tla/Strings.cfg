SPECIFICATION Spec
CONSTANTS
    Threads = {t1, t2}
    Texts <- MCTexts
    Headers <- MCHeaders
    Serial = TRUE
SYMMETRY MCSymmetry
INVARIANTS
    TameTextsCleaned
    CleanedFits
    CookieFound
