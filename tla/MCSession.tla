------------------------------- MODULE MCSession -------------------------------
(* Two threads on one client, which make every call there is.                   *)
EXTENDS Session

CONSTANTS f1, f2

AnyHello == [federation : {f1, f2}, version : {1, 2}]
================================================================================
