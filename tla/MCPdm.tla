-------------------------------- MODULE MCPdm --------------------------------
\* Small instances of PdmCapture for TLC.
EXTENDS PdmCapture

BothReaders == {"sketch", "callback"}
Sizes == {1, 3}
=============================================================================
