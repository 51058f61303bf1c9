------------------------------ MODULE MCLogging ------------------------------
(* A flash, and a router whose logger becomes the default one while the      *)
(* worker of the flash is at work; a flash that finds the console, and a     *)
(* second flash, whose name is taken; an SDRAM; a CPU with both tracers,     *)
(* which fetches one valid word and one that is not.                         *)
EXTENDS LoggingRefinement

TestBenches ==
  {<<"N25QX", "tlms">>, <<"N25QX", "N25QX">>, <<"SDRAM">>, <<"or1k", "or1k_data">>}
Fetched == {{27, 28}, Bit}
=============================================================================
