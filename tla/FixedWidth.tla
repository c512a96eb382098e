------------------------------- MODULE FixedWidth ------------------------------
(* The signed C type the firmware keeps numbers in, scaled down by the runs.  *)
EXTENDS Integers

CONSTANT INT_MAX    \* INT32_MAX

INT_MIN == -INT_MAX - 1     \* INT32_MIN is one further from zero
Int32 == INT_MIN..INT_MAX
===============================================================================
