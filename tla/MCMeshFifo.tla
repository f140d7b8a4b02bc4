---- MODULE MCMeshFifo ----
EXTENDS MeshFifo
====
