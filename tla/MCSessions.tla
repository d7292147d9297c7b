----------------------------- MODULE MCSessions -----------------------------
(* A small instance of Sessions for TLC. *)
EXTENDS Sessions

\* Two players in one room, the first of whom may have a seat in a second room too.
TwoRooms == <<1, 1, 2>>
Players == <<1, 2, 1>>
=============================================================================
