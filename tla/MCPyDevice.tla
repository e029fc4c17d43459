----------------------------- MODULE MCPyDevice -----------------------------
EXTENDS PyDevice

MCReadFirst == {TRUE, FALSE}

=============================================================================
