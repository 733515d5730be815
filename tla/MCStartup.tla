------------------------------ MODULE MCStartup ------------------------------
(* Two containers on one database, with two of the demo venues. *)
EXTENDS Startup

TwoVenues == <<"la-terraza-azul", "cuatro-vientos">>
=============================================================================
