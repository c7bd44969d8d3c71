---- MODULE MCConnector ----
(* The connector with every class of connect(2) result.                    *)
EXTENDS Connector

AllResults == {"progress", "retry", "fatal"}
====
