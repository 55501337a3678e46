\* The daemon may refuse the infected document.
CONSTANTS
    Document = {infected}
    Infected = {infected}
    Unscannable = {infected}
    ScanRequest = {r1}
    MaxFaults = 0
    Null = Null
SPECIFICATION ScanSpec
INVARIANT CleanMeansFoundNothing
