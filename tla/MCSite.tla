------------------------------- MODULE MCSite -------------------------------
(***************************************************************************)
(* A small instance of Site: two themes, plain text and one language with *)
(* a grammar, two endpoints (one with parameters and the one that is       *)
(* listed only when it is public) and pastes that live for seconds,        *)
(* minutes or hours of a short day.                                        *)
(***************************************************************************)
EXTENDS Site

MCWatched == {e \in ENDPOINTS : e.path = "/raw/{code}"} \cup {STATS}
MCHooks == {"editor", "docs", "badge"} \cup {e.path : e \in {x \in MCWatched : HasFields(x)}}
=============================================================================
