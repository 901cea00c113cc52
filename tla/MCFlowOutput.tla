--------------------------- MODULE MCFlowOutput ----------------------------
EXTENDS FlowOutput
=============================================================================
