----------------------------- MODULE MCH3Server -----------------------------
(* Constants of H3Server for TLC: own connection ids and tenants. *)
EXTENDS H3Server

MCScid == [c \in Clients |-> IF c = "ann" THEN "i" ELSE "j"]
MCSniTenant == [c \in Clients |-> IF c = "ann" THEN "acme" ELSE "globex"]
=============================================================================
