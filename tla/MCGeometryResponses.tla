------------------------ MODULE MCGeometryResponses ------------------------
EXTENDS GeometryResponses
TwoPages == <<"Page", "Object", "Page", "Object">>
=============================================================================
