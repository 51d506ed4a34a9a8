-------------------------------- MODULE MCBlogs --------------------------------
(* The model-checking instance of Blogs.                                   *)
EXTENDS Blogs, TLC

Symmetry == Permutations(Clients) \cup Permutations(Users) \cup Permutations(Methods)
===============================================================================
