--------------------------- MODULE MC_ConfigResolve ---------------------------
(* Model-checking instance of ConfigResolve: its input sets are fixed in   *)
(* the module, so this module only names it.                               *)
EXTENDS ConfigResolve
====
