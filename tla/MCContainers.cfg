SPECIFICATION CSpec
CONSTANTS
    Size = 4
    Wrap = 16
    Chars = {"a", "b"}
    NUL = "NUL"
    Heads = {h1, h2}
    Nodes = {n1, n2, n3}
    Null = Null
PROPERTIES
    ImplementsFifo
    ImplementsQueues
