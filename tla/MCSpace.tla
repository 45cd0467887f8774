------------------------------ MODULE MCSpace ------------------------------
(* Small pages and requests: a page holds two blocks of 4, and only a longer one
   holds a block of 10.  Pages are model values, as mmap may hand them out in any order. *)
EXTENDS Space, TLC

PageSymmetry == Permutations(PageIds)
============================================================================
