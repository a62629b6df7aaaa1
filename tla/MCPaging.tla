------------------------------ MODULE MCPaging ------------------------------
(* Three programs, one terminal page behind the screen.                    *)
EXTENDS Paging
=============================================================================
