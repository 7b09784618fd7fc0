--------------------------- MODULE MCPriceService ---------------------------
(***************************************************************************)
(* The price service with one key more than the cache holds.               *)
(***************************************************************************)
EXTENDS PriceService
=============================================================================
