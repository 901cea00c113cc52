--------------------------- MODULE MCReceiverFlow ---------------------------
EXTENDS ReceiverFlow
=============================================================================
