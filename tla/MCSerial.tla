----------------------------- MODULE MCSerial -----------------------------
(* A ring of four slots and a UART of two bytes: enough for the ring to fill *)
(* up, to wrap around and to be full while more bytes wait.                  *)
EXTENDS Serial
=============================================================================
