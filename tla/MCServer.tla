------------------------------ MODULE MCServer ------------------------------
(***************************************************************************)
(* A small instance of Server for TLC: a server and a seeder start, each   *)
(* as often as it likes, on a database that has none, some or all of three *)
(* migrations.                                                             *)
(***************************************************************************)
EXTENDS Server, TLC

CONSTANTS pfm, seeder, r1, r2

OneServer == {pfm}
OneSeeder == {seeder}
TwoRequests == {r1, r2}
=============================================================================
