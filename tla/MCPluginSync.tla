---------------------------- MODULE MCPluginSync ----------------------------
(* Instances of PluginSync for TLC: "categories" takes two pages,          *)
(* "products" one, and only a full sync has "categories".                  *)
EXTENDS PluginSync

MCFull == <<"categories", "products">>
MCIncremental == <<"products">>
MCItems == [e \in Entities |-> IF e = "categories" THEN 3 ELSE 1]
=============================================================================
