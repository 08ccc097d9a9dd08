------------------------------ MODULE MCOnExit ------------------------------
(* Model-checking instances of OnExit.                                     *)
EXTENDS OnExit

CONSTANTS process, dll

\* Functions of the process table may execute a DLL's table, not conversely.
OneWay == {<<process, process>>, <<process, dll>>, <<dll, dll>>}
BothWays == Tables \X Tables
=============================================================================
