\* One host and one SIGTERM, at any point of main.
CONSTANTS
    Catalogue <- MCCatalogue
    Hosts <- MCOneHost
    MaxSignals = 1
SPECIFICATION Spec
CHECK_DEADLOCK FALSE
PROPERTY StopsOnTerminate
