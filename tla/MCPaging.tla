------------------------------ MODULE MCPaging ------------------------------
(* Pages of one (list) or two (export) reports, unless the client asks for  *)
(* none, for two or for too many.                                          *)
EXTENDS Paging

ListAndExport == {"list", "export"}
SmallDefault == [e \in ListAndExport |-> IF e = "list" THEN 1 ELSE 2]
SmallMax == [e \in ListAndExport |-> IF e = "list" THEN 2 ELSE 3]
NoneTwoOrFour == {0, 2, 4}

=============================================================================
