------------------------------ MODULE MCUartTx ------------------------------
EXTENDS UartTx

MCBytes == {<<1, 0, 0, 1, 0, 1, 1, 0>>, <<0, 1, 1, 0, 1, 0, 0, 0>>}
MCOneByte == {<<1, 0, 0, 1, 0, 1, 1, 0>>}
=============================================================================
