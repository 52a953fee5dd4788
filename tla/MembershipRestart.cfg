SPECIFICATION Spec
CONSTANTS
    Node = {n1, n2, n3}
    PromptBeats = TRUE
PROPERTY
    NotEvictedWhileRunning
