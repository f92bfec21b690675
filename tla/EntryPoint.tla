------------------------------- MODULE EntryPoint -------------------------------
(***************************************************************************)
(* The command line of the image: the modules of OUTBOXY_PRELOAD are       *)
(* loaded before the code of a command, whichever it is.                   *)
(***************************************************************************)
VARIABLES
  heard,   \* does the process have a handler for SIGINT and SIGTERM?
  exit     \* how the process ended

(* A module that cannot be loaded is logged.  That of the tracing package  *)
(* handles the signals and leaves it to the application to end the process.*)
LoadPreloadModules == heard' \in BOOLEAN

(* A signal without a handler.                                             *)
DefaultAction == ~heard /\ exit' = "killed"
=============================================================================
