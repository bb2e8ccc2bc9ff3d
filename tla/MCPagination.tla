---------------------------- MODULE MCPagination ----------------------------
(* Limits that are refused (0), kept (1, 2) and replaced by the default (4). *)
EXTENDS Pagination

MCLimits == {0, 1, 2, 4}
=============================================================================
