------------------------------ MODULE MCUartTx ------------------------------
EXTENDS UartTx

\* Two chunks of distinct bytes, so that a lost, repeated or reordered byte
\* shows on the wire.
MCChunks == {<<1, 2>>, <<3>>}

=============================================================================
