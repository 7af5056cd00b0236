SPECIFICATION OrderSpec
CONSTANTS
    Identifiers <- Some
    Zero <- NumberZero
    NaN = NaN
    Releases <- SomeVersions
INVARIANTS NoWayBack AgreesWithSemver
