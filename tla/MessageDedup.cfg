\* Two messages, four deliveries to a cluster of two and a lone instance, and
\* one failing Redis call.
SPECIFICATION Spec
SYMMETRY Symmetry
CONSTANTS
    m1 = m1
    m2 = m2
    a = a
    b = b
    c = c
    d1 = d1
    d2 = d2
    d3 = d3
    d4 = d4
    Messages <- Two
    Instances <- AndOne
    Clustered <- Cluster
    Deliveries <- Four
    Window = 2
    MapLimit = 1
    MaxErrors = 1
 
PROPERTIES HandledOnce HandledOnceInCluster
