------------------------------- MODULE MCDevice -------------------------------
(* The system's UART and another device, used by two tasks.                  *)
EXTENDS Device

CONSTANTS a, b, boot, uart, other

MCTask == {a, b}
MCDev == {uart, other}
MCUartName == <<"x">>
MCNames == {<<"x">>, <<"y">>}
MCMode == [t \in {a, b, boot} |-> IF t = a THEN {"READ"} ELSE {"READ", "WRITE"}]
=============================================================================
