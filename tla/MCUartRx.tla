------------------------------ MODULE MCUartRx ------------------------------
EXTENDS UartRx

(* A byte of all zeros, of all ones, alternating, and an asymmetric one.   *)
MCBytes == {<<0, 0, 0, 0, 0, 0, 0, 0>>, <<1, 1, 1, 1, 1, 1, 1, 1>>,
            <<1, 0, 1, 0, 1, 0, 1, 0>>, <<0, 1, 1, 0, 1, 0, 0, 1>>}
MCGoodStop == {1}
MCAnyStop == {0, 1}
=============================================================================
