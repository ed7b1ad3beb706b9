CONSTANTS
    Hosts <- MCHosts
    Tests <- MCTests
SPECIFICATION Spec
CHECK_DEADLOCK FALSE
INVARIANTS JudgedByMeaning PackagesExact SinceNeverLost
