SPECIFICATION Spec
CONSTANTS
    Attempts = {t1, t2, t3}
    Applications <- FourApplications
SYMMETRY AttemptSymmetry
INVARIANTS
    RegistrationAnswersTrue
    RegisteredWhole
\* When every attempt has been answered there is nothing left to do.
CHECK_DEADLOCK FALSE
